---- MODULE Spec2Model ----
(***************************************************************************)
(* A model of the log parsing engine of loggy (src/src/utils/logParser.ts) *)
(* and of the parse driver loop of parseLogFile.                           *)
(*                                                                         *)
(* Text is modelled character by character: a JavaScript string is a tuple *)
(* of code units.  A code unit outside printable ASCII is written by its   *)
(* code: "U+2022" is the bullet and "U+2014" the em dash that the summary  *)
(* rules use as separators.                                                *)
(*                                                                         *)
(* An optional value (a field of LogEntry that may be undefined) is the    *)
(* empty tuple when absent and a one-element tuple holding the value when  *)
(* present, so that an absent string and the empty string differ.          *)
(***************************************************************************)
EXTENDS Integers, Sequences, FiniteSets, TLC

None == <<>>
Some(v) == <<v>>
IsSome(o) == Len(o) = 1
IsNone(o) == Len(o) = 0
Val(o) == o[1]

(***************************************************************************)
(* Characters and the string primitives of JavaScript the parser uses.     *)
(***************************************************************************)
Digits == {"0","1","2","3","4","5","6","7","8","9"}
UpperSeq == <<"A","B","C","D","E","F","G","H","I","J","K","L","M",
              "N","O","P","Q","R","S","T","U","V","W","X","Y","Z">>
LowerSeq == <<"a","b","c","d","e","f","g","h","i","j","k","l","m",
              "n","o","p","q","r","s","t","u","v","w","x","y","z">>
UpperSet == {UpperSeq[k] : k \in 1..Len(UpperSeq)}
LowerSet == {LowerSeq[k] : k \in 1..Len(LowerSeq)}

\* WhiteSpace and LineTerminator of ECMAScript: \s of a regular expression,
\* and the characters String.prototype.trim strips
WhiteSpace ==
  {" ", "\t", "\r", "\n", "\f", "U+000B", "U+000C", "U+00A0", "U+1680", "U+2000", "U+2001",
   "U+2002", "U+2003", "U+2004", "U+2005", "U+2006", "U+2007", "U+2008", "U+2009",
   "U+200A", "U+2028", "U+2029", "U+202F", "U+205F", "U+3000", "U+FEFF"}
\* the characters `.` of a regular expression does not match
LineTerminators == {"\r", "\n", "U+2028", "U+2029"}
\* \w of a regular expression
WordChars == Digits \cup UpperSet \cup LowerSet \cup {"_"}

DigitVal(c) ==
  CASE c = "0" -> 0 [] c = "1" -> 1 [] c = "2" -> 2 [] c = "3" -> 3
    [] c = "4" -> 4 [] c = "5" -> 5 [] c = "6" -> 6 [] c = "7" -> 7
    [] c = "8" -> 8 [] c = "9" -> 9

RECURSIVE NumVal(_)
\* the value of a run of decimal digits
NumVal(s) ==
  IF Len(s) = 0 THEN 0
  ELSE 10 * NumVal(SubSeq(s, 1, Len(s) - 1)) + DigitVal(s[Len(s)])

AllIn(s, set) == \A k \in 1..Len(s) : s[k] \in set

(***************************************************************************)
(* Code units.  A character of ASCII is the one-character string; a code   *)
(* unit that is not a printable character of ASCII, a tab, a line feed or  *)
(* a carriage return is written "U+XXXX", its code in four upper-case      *)
(* hexadecimal digits, and so is the grave accent, "U+0060".  A code point *)
(* above U+FFFF is two code units, a high and a low surrogate, as in a     *)
(* JavaScript string.  The case mappings are those of the Unicode          *)
(* Character Database 17.0 (UnicodeData.txt, SpecialCasing.txt).           *)
(***************************************************************************)
\* the printable characters of ASCII, from the space (code 32) to the tilde (code 126)
Ascii == <<
    " ", "!", "\"", "#", "$", "%", "&", "'", "(", ")", "*", "+", ",", "-", ".", "/", "0", "1",
    "2", "3", "4", "5", "6", "7", "8", "9", ":", ";", "<", "=", ">", "?", "@", "A", "B", "C",
    "D", "E", "F", "G", "H", "I", "J", "K", "L", "M", "N", "O", "P", "Q", "R", "S", "T", "U",
    "V", "W", "X", "Y", "Z", "[", "\\", "]", "^", "_", "U+0060", "a", "b", "c", "d", "e", "f", "g",
    "h", "i", "j", "k", "l", "m", "n", "o", "p", "q", "r", "s", "t", "u", "v", "w", "x", "y",
    "z", "{", "|", "}", "~" >>

\* Unicode simple case mappings above ASCII, as runs <<first, last, step, delta>>:
\* every step-th code point from first to last maps to itself plus delta
UpperRuns == <<
  <<181,181,1,743>>, <<224,246,1,-32>>, <<248,254,1,-32>>, <<255,255,1,121>>, <<257,303,2,-1>>,
  <<305,305,1,-232>>, <<307,311,2,-1>>, <<314,328,2,-1>>, <<331,375,2,-1>>, <<378,382,2,-1>>,
  <<383,383,1,-300>>, <<384,384,1,195>>, <<387,389,2,-1>>, <<392,392,1,-1>>, <<396,396,1,-1>>,
  <<402,402,1,-1>>, <<405,405,1,97>>, <<409,409,1,-1>>, <<410,410,1,163>>, <<411,411,1,42561>>, <<414,414,1,130>>,
  <<417,421,2,-1>>, <<424,424,1,-1>>, <<429,429,1,-1>>, <<432,432,1,-1>>, <<436,438,2,-1>>,
  <<441,441,1,-1>>, <<445,445,1,-1>>, <<447,447,1,56>>, <<453,453,1,-1>>, <<454,454,1,-2>>,
  <<456,456,1,-1>>, <<457,457,1,-2>>, <<459,459,1,-1>>, <<460,460,1,-2>>, <<462,476,2,-1>>,
  <<477,477,1,-79>>, <<479,495,2,-1>>, <<498,498,1,-1>>, <<499,499,1,-2>>, <<501,501,1,-1>>,
  <<505,543,2,-1>>, <<547,563,2,-1>>, <<572,572,1,-1>>, <<575,576,1,10815>>, <<578,578,1,-1>>,
  <<583,591,2,-1>>, <<592,592,1,10783>>, <<593,593,1,10780>>, <<594,594,1,10782>>,
  <<595,595,1,-210>>, <<596,596,1,-206>>, <<598,599,1,-205>>, <<601,601,1,-202>>,
  <<603,603,1,-203>>, <<604,604,1,42319>>, <<608,608,1,-205>>, <<609,609,1,42315>>,
  <<611,611,1,-207>>, <<612,612,1,42343>>, <<613,613,1,42280>>, <<614,614,1,42308>>, <<616,616,1,-209>>,
  <<617,617,1,-211>>, <<618,618,1,42308>>, <<619,619,1,10743>>, <<620,620,1,42305>>,
  <<623,623,1,-211>>, <<625,625,1,10749>>, <<626,626,1,-213>>, <<629,629,1,-214>>,
  <<637,637,1,10727>>, <<640,640,1,-218>>, <<642,642,1,42307>>, <<643,643,1,-218>>,
  <<647,647,1,42282>>, <<648,648,1,-218>>, <<649,649,1,-69>>, <<650,651,1,-217>>,
  <<652,652,1,-71>>, <<658,658,1,-219>>, <<669,669,1,42261>>, <<670,670,1,42258>>,
  <<837,837,1,84>>, <<881,883,2,-1>>, <<887,887,1,-1>>, <<891,893,1,130>>, <<940,940,1,-38>>,
  <<941,943,1,-37>>, <<945,961,1,-32>>, <<962,962,1,-31>>, <<963,971,1,-32>>,
  <<972,972,1,-64>>, <<973,974,1,-63>>, <<976,976,1,-62>>, <<977,977,1,-57>>,
  <<981,981,1,-47>>, <<982,982,1,-54>>, <<983,983,1,-8>>, <<985,1007,2,-1>>,
  <<1008,1008,1,-86>>, <<1009,1009,1,-80>>, <<1010,1010,1,7>>, <<1011,1011,1,-116>>,
  <<1013,1013,1,-96>>, <<1016,1016,1,-1>>, <<1019,1019,1,-1>>, <<1072,1103,1,-32>>,
  <<1104,1119,1,-80>>, <<1121,1153,2,-1>>, <<1163,1215,2,-1>>, <<1218,1230,2,-1>>,
  <<1231,1231,1,-15>>, <<1233,1327,2,-1>>, <<1377,1414,1,-48>>, <<4304,4346,1,3008>>,
  <<4349,4351,1,3008>>, <<5112,5117,1,-8>>, <<7296,7296,1,-6254>>, <<7297,7297,1,-6253>>,
  <<7298,7298,1,-6244>>, <<7299,7300,1,-6242>>, <<7301,7301,1,-6243>>, <<7302,7302,1,-6236>>,
  <<7303,7303,1,-6181>>, <<7304,7304,1,35266>>, <<7306,7306,1,-1>>, <<7545,7545,1,35332>>, <<7549,7549,1,3814>>,
  <<7566,7566,1,35384>>, <<7681,7829,2,-1>>, <<7835,7835,1,-59>>, <<7841,7935,2,-1>>,
  <<7936,7943,1,8>>, <<7952,7957,1,8>>, <<7968,7975,1,8>>, <<7984,7991,1,8>>,
  <<8000,8005,1,8>>, <<8017,8023,2,8>>, <<8032,8039,1,8>>, <<8048,8049,1,74>>,
  <<8050,8053,1,86>>, <<8054,8055,1,100>>, <<8056,8057,1,128>>, <<8058,8059,1,112>>,
  <<8060,8061,1,126>>, <<8112,8113,1,8>>, <<8126,8126,1,-7205>>, <<8144,8145,1,8>>,
  <<8160,8161,1,8>>, <<8165,8165,1,7>>, <<8526,8526,1,-28>>, <<8560,8575,1,-16>>,
  <<8580,8580,1,-1>>, <<9424,9449,1,-26>>, <<11312,11359,1,-48>>, <<11361,11361,1,-1>>,
  <<11365,11365,1,-10795>>, <<11366,11366,1,-10792>>, <<11368,11372,2,-1>>,
  <<11379,11379,1,-1>>, <<11382,11382,1,-1>>, <<11393,11491,2,-1>>, <<11500,11502,2,-1>>,
  <<11507,11507,1,-1>>, <<11520,11557,1,-7264>>, <<11559,11559,1,-7264>>,
  <<11565,11565,1,-7264>>, <<42561,42605,2,-1>>, <<42625,42651,2,-1>>, <<42787,42799,2,-1>>,
  <<42803,42863,2,-1>>, <<42874,42876,2,-1>>, <<42879,42887,2,-1>>, <<42892,42892,1,-1>>,
  <<42897,42899,2,-1>>, <<42900,42900,1,48>>, <<42903,42921,2,-1>>, <<42933,42947,2,-1>>,
  <<42952,42954,2,-1>>, <<42957,42959,2,-1>>, <<42961,42971,2,-1>>, <<42998,42998,1,-1>>,
  <<43859,43859,1,-928>>, <<43888,43967,1,-38864>>, <<65345,65370,1,-32>>,
  <<66600,66639,1,-40>>, <<66776,66811,1,-40>>, <<66967,67003,2,-39>>, <<66968,66976,2,-39>>,
  <<66980,66992,2,-39>>, <<66996,67000,2,-39>>, <<67004,67004,1,-39>>, <<68800,68850,1,-64>>,
  <<68976,68997,1,-32>>, <<71872,71903,1,-32>>, <<93792,93823,1,-32>>, <<93883,93907,1,-27>>, <<125218,125251,1,-34>> >>
LowerRuns == <<
  <<192,214,1,32>>, <<216,222,1,32>>, <<256,302,2,1>>, <<306,310,2,1>>, <<313,327,2,1>>,
  <<330,374,2,1>>, <<376,376,1,-121>>, <<377,381,2,1>>, <<385,385,1,210>>, <<386,388,2,1>>,
  <<390,390,1,206>>, <<391,391,1,1>>, <<393,394,1,205>>, <<395,395,1,1>>, <<398,398,1,79>>,
  <<399,399,1,202>>, <<400,400,1,203>>, <<401,401,1,1>>, <<403,403,1,205>>, <<404,404,1,207>>,
  <<406,406,1,211>>, <<407,407,1,209>>, <<408,408,1,1>>, <<412,412,1,211>>, <<413,413,1,213>>,
  <<415,415,1,214>>, <<416,420,2,1>>, <<422,422,1,218>>, <<423,423,1,1>>, <<425,425,1,218>>,
  <<428,428,1,1>>, <<430,430,1,218>>, <<431,431,1,1>>, <<433,434,1,217>>, <<435,437,2,1>>,
  <<439,439,1,219>>, <<440,440,1,1>>, <<444,444,1,1>>, <<452,452,1,2>>, <<453,453,1,1>>,
  <<455,455,1,2>>, <<456,456,1,1>>, <<458,458,1,2>>, <<459,475,2,1>>, <<478,494,2,1>>,
  <<497,497,1,2>>, <<498,500,2,1>>, <<502,502,1,-97>>, <<503,503,1,-56>>, <<504,542,2,1>>,
  <<544,544,1,-130>>, <<546,562,2,1>>, <<570,570,1,10795>>, <<571,571,1,1>>,
  <<573,573,1,-163>>, <<574,574,1,10792>>, <<577,577,1,1>>, <<579,579,1,-195>>,
  <<580,580,1,69>>, <<581,581,1,71>>, <<582,590,2,1>>, <<880,882,2,1>>, <<886,886,1,1>>,
  <<895,895,1,116>>, <<902,902,1,38>>, <<904,906,1,37>>, <<908,908,1,64>>, <<910,911,1,63>>,
  <<913,929,1,32>>, <<931,939,1,32>>, <<975,975,1,8>>, <<984,1006,2,1>>, <<1012,1012,1,-60>>,
  <<1015,1015,1,1>>, <<1017,1017,1,-7>>, <<1018,1018,1,1>>, <<1021,1023,1,-130>>,
  <<1024,1039,1,80>>, <<1040,1071,1,32>>, <<1120,1152,2,1>>, <<1162,1214,2,1>>,
  <<1216,1216,1,15>>, <<1217,1229,2,1>>, <<1232,1326,2,1>>, <<1329,1366,1,48>>,
  <<4256,4293,1,7264>>, <<4295,4295,1,7264>>, <<4301,4301,1,7264>>, <<5024,5103,1,38864>>,
  <<5104,5109,1,8>>, <<7305,7305,1,1>>, <<7312,7354,1,-3008>>, <<7357,7359,1,-3008>>, <<7680,7828,2,1>>,
  <<7838,7838,1,-7615>>, <<7840,7934,2,1>>, <<7944,7951,1,-8>>, <<7960,7965,1,-8>>,
  <<7976,7983,1,-8>>, <<7992,7999,1,-8>>, <<8008,8013,1,-8>>, <<8025,8031,2,-8>>,
  <<8040,8047,1,-8>>, <<8072,8079,1,-8>>, <<8088,8095,1,-8>>, <<8104,8111,1,-8>>,
  <<8120,8121,1,-8>>, <<8122,8123,1,-74>>, <<8124,8124,1,-9>>, <<8136,8139,1,-86>>,
  <<8140,8140,1,-9>>, <<8152,8153,1,-8>>, <<8154,8155,1,-100>>, <<8168,8169,1,-8>>,
  <<8170,8171,1,-112>>, <<8172,8172,1,-7>>, <<8184,8185,1,-128>>, <<8186,8187,1,-126>>,
  <<8188,8188,1,-9>>, <<8486,8486,1,-7517>>, <<8490,8490,1,-8383>>, <<8491,8491,1,-8262>>,
  <<8498,8498,1,28>>, <<8544,8559,1,16>>, <<8579,8579,1,1>>, <<9398,9423,1,26>>,
  <<11264,11311,1,48>>, <<11360,11360,1,1>>, <<11362,11362,1,-10743>>, <<11363,11363,1,-3814>>,
  <<11364,11364,1,-10727>>, <<11367,11371,2,1>>, <<11373,11373,1,-10780>>,
  <<11374,11374,1,-10749>>, <<11375,11375,1,-10783>>, <<11376,11376,1,-10782>>,
  <<11378,11378,1,1>>, <<11381,11381,1,1>>, <<11390,11391,1,-10815>>, <<11392,11490,2,1>>,
  <<11499,11501,2,1>>, <<11506,11506,1,1>>, <<42560,42604,2,1>>, <<42624,42650,2,1>>,
  <<42786,42798,2,1>>, <<42802,42862,2,1>>, <<42873,42875,2,1>>, <<42877,42877,1,-35332>>,
  <<42878,42886,2,1>>, <<42891,42891,1,1>>, <<42893,42893,1,-42280>>, <<42896,42898,2,1>>,
  <<42902,42920,2,1>>, <<42922,42922,1,-42308>>, <<42923,42923,1,-42319>>,
  <<42924,42924,1,-42315>>, <<42925,42925,1,-42305>>, <<42926,42926,1,-42308>>,
  <<42928,42928,1,-42258>>, <<42929,42929,1,-42282>>, <<42930,42930,1,-42261>>,
  <<42931,42931,1,928>>, <<42932,42946,2,1>>, <<42948,42948,1,-48>>, <<42949,42949,1,-42307>>,
  <<42950,42950,1,-35384>>, <<42951,42953,2,1>>, <<42955,42955,1,-42343>>, <<42956,42958,2,1>>,
  <<42960,42970,2,1>>, <<42972,42972,1,-42561>>,
  <<42997,42997,1,1>>, <<65313,65338,1,32>>, <<66560,66599,1,40>>, <<66736,66771,1,40>>,
  <<66928,66964,2,39>>, <<66929,66937,2,39>>, <<66941,66953,2,39>>, <<66957,66961,2,39>>,
  <<66965,66965,1,39>>, <<68736,68786,1,64>>, <<68944,68965,1,32>>, <<71840,71871,1,32>>, <<93760,93791,1,32>>,
  <<93856,93880,1,27>>,
  <<125184,125217,1,34>> >>
\* the code points whose upper case (lower case) is more than one code point
\* (SpecialCasing.txt, the unconditional mappings)
UpperSpecial == <<
  <<223,<<83,83>>>>, <<329,<<700,78>>>>, <<496,<<74,780>>>>, <<912,<<921,776,769>>>>,
  <<944,<<933,776,769>>>>, <<1415,<<1333,1362>>>>, <<7830,<<72,817>>>>, <<7831,<<84,776>>>>,
  <<7832,<<87,778>>>>, <<7833,<<89,778>>>>, <<7834,<<65,702>>>>, <<8016,<<933,787>>>>,
  <<8018,<<933,787,768>>>>, <<8020,<<933,787,769>>>>, <<8022,<<933,787,834>>>>,
  <<8064,<<7944,921>>>>, <<8065,<<7945,921>>>>, <<8066,<<7946,921>>>>, <<8067,<<7947,921>>>>,
  <<8068,<<7948,921>>>>, <<8069,<<7949,921>>>>, <<8070,<<7950,921>>>>, <<8071,<<7951,921>>>>,
  <<8072,<<7944,921>>>>, <<8073,<<7945,921>>>>, <<8074,<<7946,921>>>>, <<8075,<<7947,921>>>>,
  <<8076,<<7948,921>>>>, <<8077,<<7949,921>>>>, <<8078,<<7950,921>>>>, <<8079,<<7951,921>>>>,
  <<8080,<<7976,921>>>>, <<8081,<<7977,921>>>>, <<8082,<<7978,921>>>>, <<8083,<<7979,921>>>>,
  <<8084,<<7980,921>>>>, <<8085,<<7981,921>>>>, <<8086,<<7982,921>>>>, <<8087,<<7983,921>>>>,
  <<8088,<<7976,921>>>>, <<8089,<<7977,921>>>>, <<8090,<<7978,921>>>>, <<8091,<<7979,921>>>>,
  <<8092,<<7980,921>>>>, <<8093,<<7981,921>>>>, <<8094,<<7982,921>>>>, <<8095,<<7983,921>>>>,
  <<8096,<<8040,921>>>>, <<8097,<<8041,921>>>>, <<8098,<<8042,921>>>>, <<8099,<<8043,921>>>>,
  <<8100,<<8044,921>>>>, <<8101,<<8045,921>>>>, <<8102,<<8046,921>>>>, <<8103,<<8047,921>>>>,
  <<8104,<<8040,921>>>>, <<8105,<<8041,921>>>>, <<8106,<<8042,921>>>>, <<8107,<<8043,921>>>>,
  <<8108,<<8044,921>>>>, <<8109,<<8045,921>>>>, <<8110,<<8046,921>>>>, <<8111,<<8047,921>>>>,
  <<8114,<<8122,921>>>>, <<8115,<<913,921>>>>, <<8116,<<902,921>>>>, <<8118,<<913,834>>>>,
  <<8119,<<913,834,921>>>>, <<8124,<<913,921>>>>, <<8130,<<8138,921>>>>, <<8131,<<919,921>>>>,
  <<8132,<<905,921>>>>, <<8134,<<919,834>>>>, <<8135,<<919,834,921>>>>, <<8140,<<919,921>>>>,
  <<8146,<<921,776,768>>>>, <<8147,<<921,776,769>>>>, <<8150,<<921,834>>>>,
  <<8151,<<921,776,834>>>>, <<8162,<<933,776,768>>>>, <<8163,<<933,776,769>>>>,
  <<8164,<<929,787>>>>, <<8166,<<933,834>>>>, <<8167,<<933,776,834>>>>, <<8178,<<8186,921>>>>,
  <<8179,<<937,921>>>>, <<8180,<<911,921>>>>, <<8182,<<937,834>>>>, <<8183,<<937,834,921>>>>,
  <<8188,<<937,921>>>>, <<64256,<<70,70>>>>, <<64257,<<70,73>>>>, <<64258,<<70,76>>>>,
  <<64259,<<70,70,73>>>>, <<64260,<<70,70,76>>>>, <<64261,<<83,84>>>>, <<64262,<<83,84>>>>,
  <<64275,<<1348,1350>>>>, <<64276,<<1348,1333>>>>, <<64277,<<1348,1339>>>>,
  <<64278,<<1358,1350>>>>, <<64279,<<1348,1341>>>> >>
LowerSpecial == <<
  <<304,<<105,775>>>> >>
\* the code points above ASCII that are cased and not case-ignorable, and the
\* case-ignorable ones, as spans <<first, last>>
CasedSpans == <<
  <<170,170>>, <<181,181>>, <<186,186>>, <<192,214>>, <<216,246>>, <<248,442>>, <<444,447>>,
  <<452,659>>, <<661,687>>, <<880,883>>, <<886,887>>, <<891,893>>, <<895,895>>, <<902,902>>,
  <<904,906>>, <<908,908>>, <<910,929>>, <<931,1013>>, <<1015,1153>>, <<1162,1327>>,
  <<1329,1366>>, <<1376,1416>>, <<4256,4293>>, <<4295,4295>>, <<4301,4301>>, <<4304,4346>>,
  <<4349,4351>>, <<5024,5109>>, <<5112,5117>>, <<7296,7306>>, <<7312,7354>>, <<7357,7359>>,
  <<7424,7467>>, <<7531,7543>>, <<7545,7578>>, <<7680,7957>>, <<7960,7965>>, <<7968,8005>>,
  <<8008,8013>>, <<8016,8023>>, <<8025,8025>>, <<8027,8027>>, <<8029,8029>>, <<8031,8061>>,
  <<8064,8116>>, <<8118,8124>>, <<8126,8126>>, <<8130,8132>>, <<8134,8140>>, <<8144,8147>>,
  <<8150,8155>>, <<8160,8172>>, <<8178,8180>>, <<8182,8188>>, <<8450,8450>>, <<8455,8455>>,
  <<8458,8467>>, <<8469,8469>>, <<8473,8477>>, <<8484,8484>>, <<8486,8486>>, <<8488,8488>>,
  <<8490,8493>>, <<8495,8500>>, <<8505,8505>>, <<8508,8511>>, <<8517,8521>>, <<8526,8526>>,
  <<8544,8575>>, <<8579,8580>>, <<9398,9449>>, <<11264,11387>>, <<11390,11492>>,
  <<11499,11502>>, <<11506,11507>>, <<11520,11557>>, <<11559,11559>>, <<11565,11565>>,
  <<42560,42605>>, <<42624,42651>>, <<42786,42863>>, <<42865,42887>>, <<42891,42894>>,
  <<42896,42972>>, <<42997,42998>>,
  <<43002,43002>>, <<43824,43866>>, <<43872,43880>>, <<43888,43967>>, <<64256,64262>>,
  <<64275,64279>>, <<65313,65338>>, <<65345,65370>>, <<66560,66639>>, <<66736,66771>>,
  <<66776,66811>>, <<66928,66938>>, <<66940,66954>>, <<66956,66962>>, <<66964,66965>>,
  <<66967,66977>>, <<66979,66993>>, <<66995,67001>>, <<67003,67004>>, <<68736,68786>>,
  <<68800,68850>>, <<68944,68965>>, <<68976,68997>>, <<71840,71903>>, <<93760,93823>>,
  <<93856,93880>>, <<93883,93907>>, <<119808,119892>>, <<119894,119964>>,
  <<119966,119967>>, <<119970,119970>>, <<119973,119974>>, <<119977,119980>>,
  <<119982,119993>>, <<119995,119995>>, <<119997,120003>>, <<120005,120069>>,
  <<120071,120074>>, <<120077,120084>>, <<120086,120092>>, <<120094,120121>>,
  <<120123,120126>>, <<120128,120132>>, <<120134,120134>>, <<120138,120144>>,
  <<120146,120485>>, <<120488,120512>>, <<120514,120538>>, <<120540,120570>>,
  <<120572,120596>>, <<120598,120628>>, <<120630,120654>>, <<120656,120686>>,
  <<120688,120712>>, <<120714,120744>>, <<120746,120770>>, <<120772,120779>>,
  <<122624,122633>>, <<122635,122654>>, <<125184,125251>>, <<127280,127305>>,
  <<127312,127337>>, <<127344,127369>> >>
IgnorableSpans == <<
  <<168,168>>, <<173,173>>, <<175,175>>, <<180,180>>, <<183,184>>, <<688,879>>, <<884,885>>,
  <<890,890>>, <<900,901>>, <<903,903>>, <<1155,1161>>, <<1369,1369>>, <<1375,1375>>,
  <<1425,1469>>, <<1471,1471>>, <<1473,1474>>, <<1476,1477>>, <<1479,1479>>, <<1524,1524>>,
  <<1536,1541>>, <<1552,1562>>, <<1564,1564>>, <<1600,1600>>, <<1611,1631>>, <<1648,1648>>,
  <<1750,1757>>, <<1759,1768>>, <<1770,1773>>, <<1807,1807>>, <<1809,1809>>, <<1840,1866>>,
  <<1958,1968>>, <<2027,2037>>, <<2042,2042>>, <<2045,2045>>, <<2070,2093>>, <<2137,2139>>,
  <<2184,2184>>, <<2192,2193>>, <<2200,2207>>, <<2249,2306>>, <<2362,2362>>, <<2364,2364>>,
  <<2369,2376>>, <<2381,2381>>, <<2385,2391>>, <<2402,2403>>, <<2417,2417>>, <<2433,2433>>,
  <<2492,2492>>, <<2497,2500>>, <<2509,2509>>, <<2530,2531>>, <<2558,2558>>, <<2561,2562>>,
  <<2620,2620>>, <<2625,2626>>, <<2631,2632>>, <<2635,2637>>, <<2641,2641>>, <<2672,2673>>,
  <<2677,2677>>, <<2689,2690>>, <<2748,2748>>, <<2753,2757>>, <<2759,2760>>, <<2765,2765>>,
  <<2786,2787>>, <<2810,2815>>, <<2817,2817>>, <<2876,2876>>, <<2879,2879>>, <<2881,2884>>,
  <<2893,2893>>, <<2901,2902>>, <<2914,2915>>, <<2946,2946>>, <<3008,3008>>, <<3021,3021>>,
  <<3072,3072>>, <<3076,3076>>, <<3132,3132>>, <<3134,3136>>, <<3142,3144>>, <<3146,3149>>,
  <<3157,3158>>, <<3170,3171>>, <<3201,3201>>, <<3260,3260>>, <<3263,3263>>, <<3270,3270>>,
  <<3276,3277>>, <<3298,3299>>, <<3328,3329>>, <<3387,3388>>, <<3393,3396>>, <<3405,3405>>,
  <<3426,3427>>, <<3457,3457>>, <<3530,3530>>, <<3538,3540>>, <<3542,3542>>, <<3633,3633>>,
  <<3636,3642>>, <<3654,3662>>, <<3761,3761>>, <<3764,3772>>, <<3782,3782>>, <<3784,3789>>,
  <<3864,3865>>, <<3893,3893>>, <<3895,3895>>, <<3897,3897>>, <<3953,3966>>, <<3968,3972>>,
  <<3974,3975>>, <<3981,3991>>, <<3993,4028>>, <<4038,4038>>, <<4141,4144>>, <<4146,4151>>,
  <<4153,4154>>, <<4157,4158>>, <<4184,4185>>, <<4190,4192>>, <<4209,4212>>, <<4226,4226>>,
  <<4229,4230>>, <<4237,4237>>, <<4253,4253>>, <<4348,4348>>, <<4957,4959>>, <<5906,5908>>,
  <<5938,5939>>, <<5970,5971>>, <<6002,6003>>, <<6068,6069>>, <<6071,6077>>, <<6086,6086>>,
  <<6089,6099>>, <<6103,6103>>, <<6109,6109>>, <<6155,6159>>, <<6211,6211>>, <<6277,6278>>,
  <<6313,6313>>, <<6432,6434>>, <<6439,6440>>, <<6450,6450>>, <<6457,6459>>, <<6679,6680>>,
  <<6683,6683>>, <<6742,6742>>, <<6744,6750>>, <<6752,6752>>, <<6754,6754>>, <<6757,6764>>,
  <<6771,6780>>, <<6783,6783>>, <<6823,6823>>, <<6832,6862>>, <<6912,6915>>, <<6964,6964>>,
  <<6966,6970>>, <<6972,6972>>, <<6978,6978>>, <<7019,7027>>, <<7040,7041>>, <<7074,7077>>,
  <<7080,7081>>, <<7083,7085>>, <<7142,7142>>, <<7144,7145>>, <<7149,7149>>, <<7151,7153>>,
  <<7212,7219>>, <<7222,7223>>, <<7288,7293>>, <<7376,7378>>, <<7380,7392>>, <<7394,7400>>,
  <<7405,7405>>, <<7412,7412>>, <<7416,7417>>, <<7468,7530>>, <<7544,7544>>, <<7579,7679>>,
  <<8125,8125>>, <<8127,8129>>, <<8141,8143>>, <<8157,8159>>, <<8173,8175>>, <<8189,8190>>,
  <<8203,8207>>, <<8216,8217>>, <<8228,8228>>, <<8231,8231>>, <<8234,8238>>, <<8288,8292>>,
  <<8294,8303>>, <<8305,8305>>, <<8319,8319>>, <<8336,8348>>, <<8400,8432>>, <<11388,11389>>,
  <<11503,11505>>, <<11631,11631>>, <<11647,11647>>, <<11744,11775>>, <<11823,11823>>,
  <<12293,12293>>, <<12330,12333>>, <<12337,12341>>, <<12347,12347>>, <<12441,12446>>,
  <<12540,12542>>, <<40981,40981>>, <<42232,42237>>, <<42508,42508>>, <<42607,42610>>,
  <<42612,42621>>, <<42623,42623>>, <<42652,42655>>, <<42736,42737>>, <<42752,42785>>,
  <<42864,42864>>, <<42888,42890>>, <<42994,42996>>, <<43000,43001>>, <<43010,43010>>,
  <<43014,43014>>, <<43019,43019>>, <<43045,43046>>, <<43052,43052>>, <<43204,43205>>,
  <<43232,43249>>, <<43263,43263>>, <<43302,43309>>, <<43335,43345>>, <<43392,43394>>,
  <<43443,43443>>, <<43446,43449>>, <<43452,43453>>, <<43471,43471>>, <<43493,43494>>,
  <<43561,43566>>, <<43569,43570>>, <<43573,43574>>, <<43587,43587>>, <<43596,43596>>,
  <<43632,43632>>, <<43644,43644>>, <<43696,43696>>, <<43698,43700>>, <<43703,43704>>,
  <<43710,43711>>, <<43713,43713>>, <<43741,43741>>, <<43756,43757>>, <<43763,43764>>,
  <<43766,43766>>, <<43867,43871>>, <<43881,43883>>, <<44005,44005>>, <<44008,44008>>,
  <<44013,44013>>, <<64286,64286>>, <<64434,64450>>, <<65024,65039>>, <<65043,65043>>,
  <<65056,65071>>, <<65106,65106>>, <<65109,65109>>, <<65279,65279>>, <<65287,65287>>,
  <<65294,65294>>, <<65306,65306>>, <<65342,65342>>, <<65344,65344>>, <<65392,65392>>,
  <<65438,65439>>, <<65507,65507>>, <<65529,65531>>, <<66045,66045>>, <<66272,66272>>,
  <<66422,66426>>, <<67456,67461>>, <<67463,67504>>, <<67506,67514>>, <<68097,68099>>,
  <<68101,68102>>, <<68108,68111>>, <<68152,68154>>, <<68159,68159>>, <<68325,68326>>,
  <<68900,68903>>, <<69291,69292>>, <<69446,69456>>, <<69506,69509>>, <<69633,69633>>,
  <<69688,69702>>, <<69744,69744>>, <<69747,69748>>, <<69759,69761>>, <<69811,69814>>,
  <<69817,69818>>, <<69821,69821>>, <<69826,69826>>, <<69837,69837>>, <<69888,69890>>,
  <<69927,69931>>, <<69933,69940>>, <<70003,70003>>, <<70016,70017>>, <<70070,70078>>,
  <<70089,70092>>, <<70095,70095>>, <<70191,70193>>, <<70196,70196>>, <<70198,70199>>,
  <<70206,70206>>, <<70367,70367>>, <<70371,70378>>, <<70400,70401>>, <<70459,70460>>,
  <<70464,70464>>, <<70502,70508>>, <<70512,70516>>, <<70712,70719>>, <<70722,70724>>,
  <<70726,70726>>, <<70750,70750>>, <<70835,70840>>, <<70842,70842>>, <<70847,70848>>,
  <<70850,70851>>, <<71090,71093>>, <<71100,71101>>, <<71103,71104>>, <<71132,71133>>,
  <<71219,71226>>, <<71229,71229>>, <<71231,71232>>, <<71339,71339>>, <<71341,71341>>,
  <<71344,71349>>, <<71351,71351>>, <<71453,71455>>, <<71458,71461>>, <<71463,71467>>,
  <<71727,71735>>, <<71737,71738>>, <<71995,71996>>, <<71998,71998>>, <<72003,72003>>,
  <<72148,72151>>, <<72154,72155>>, <<72160,72160>>, <<72193,72202>>, <<72243,72248>>,
  <<72251,72254>>, <<72263,72263>>, <<72273,72278>>, <<72281,72283>>, <<72330,72342>>,
  <<72344,72345>>, <<72752,72758>>, <<72760,72765>>, <<72767,72767>>, <<72850,72871>>,
  <<72874,72880>>, <<72882,72883>>, <<72885,72886>>, <<73009,73014>>, <<73018,73018>>,
  <<73020,73021>>, <<73023,73029>>, <<73031,73031>>, <<73104,73105>>, <<73109,73109>>,
  <<73111,73111>>, <<73459,73460>>, <<78896,78904>>, <<92912,92916>>, <<92976,92982>>,
  <<92992,92995>>, <<94031,94031>>, <<94095,94111>>, <<94176,94177>>, <<94179,94180>>,
  <<110576,110579>>, <<110581,110587>>, <<110589,110590>>, <<113821,113822>>,
  <<113824,113827>>, <<118528,118573>>, <<118576,118598>>, <<119143,119145>>,
  <<119155,119170>>, <<119173,119179>>, <<119210,119213>>, <<119362,119364>>,
  <<121344,121398>>, <<121403,121452>>, <<121461,121461>>, <<121476,121476>>,
  <<121499,121503>>, <<121505,121519>>, <<122880,122886>>, <<122888,122904>>,
  <<122907,122913>>, <<122915,122916>>, <<122918,122922>>, <<123184,123197>>,
  <<123566,123566>>, <<123628,123631>>, <<125136,125142>>, <<125252,125259>>,
  <<127995,127999>>, <<917505,917505>>, <<917536,917631>>, <<917760,917999>> >>

HexSeq == <<"0","1","2","3","4","5","6","7","8","9","A","B","C","D","E","F">>
\* the value of one hexadecimal digit, a one-character string
HexVal(h) ==
  IF h \in Digits THEN DigitVal(h)
  ELSE CASE h \in {"a", "A"} -> 10 [] h \in {"b", "B"} -> 11 [] h \in {"c", "C"} -> 12
         [] h \in {"d", "D"} -> 13 [] h \in {"e", "E"} -> 14 [] h \in {"f", "F"} -> 15

\* the code unit four hexadecimal digits write
Hex4(h1, h2, h3, h4) == 4096 * HexVal(h1) + 256 * HexVal(h2) + 16 * HexVal(h3) + HexVal(h4)

\* the code of a code unit
CodeOf(c) ==
  IF Len(c) = 1
  THEN CASE c = "\t" -> 9 [] c = "\n" -> 10 [] c = "\r" -> 13 [] c = "\f" -> 12
         [] OTHER -> 31 + (CHOOSE k \in 1..Len(Ascii) : Ascii[k] = c)
  ELSE Hex4(SubSeq(c, 3, 3), SubSeq(c, 4, 4), SubSeq(c, 5, 5), SubSeq(c, 6, 6))

\* the code unit of a code (String.fromCharCode)
fromCharCode(n) ==
  CASE n \in 32..126 -> Ascii[n - 31]
    [] n = 9 -> "\t" [] n = 10 -> "\n" [] n = 13 -> "\r"
    [] OTHER -> "U+" \o HexSeq[(n \div 4096) + 1] \o HexSeq[((n \div 256) % 16) + 1]
                     \o HexSeq[((n \div 16) % 16) + 1] \o HexSeq[(n % 16) + 1]

\* a text is written in ASCII characters only
IsAsciiText(s) == \A k \in 1..Len(s) : Len(s[k]) = 1

\* the code units at k and k + 1 are a surrogate pair
IsPairAt(s, k) ==
  /\ k + 1 <= Len(s)
  /\ Len(s[k]) > 1 /\ CodeOf(s[k]) \in 55296..56319
  /\ Len(s[k + 1]) > 1 /\ CodeOf(s[k + 1]) \in 56320..57343

RECURSIVE CodePointsFrom(_, _)
\* the code points of a text from position k on
CodePointsFrom(s, k) ==
  IF k > Len(s) THEN <<>>
  ELSE IF IsPairAt(s, k)
  THEN <<65536 + 1024 * (CodeOf(s[k]) - 55296) + (CodeOf(s[k + 1]) - 56320)>>
       \o CodePointsFrom(s, k + 2)
  ELSE <<CodeOf(s[k])>> \o CodePointsFrom(s, k + 1)

\* the code units of a code point
UnitsOf(cp) ==
  IF cp < 65536 THEN <<fromCharCode(cp)>>
  ELSE <<fromCharCode(55296 + ((cp - 65536) \div 1024)),
         fromCharCode(56320 + ((cp - 65536) % 1024))>>

RECURSIVE UnitsOfAll(_, _)
\* the code units of the code points cps[k], each a tuple of code points
UnitsOfAll(cps, k) ==
  IF k > Len(cps) THEN <<>>
  ELSE (IF Len(cps[k]) = 1 THEN UnitsOf(cps[k][1])
        ELSE UnitsOfAll([j \in 1..Len(cps[k]) |-> <<cps[k][j]>>], 1))
       \o UnitsOfAll(cps, k + 1)

InRun(cp, r) == cp >= r[1] /\ cp <= r[2] /\ (cp - r[1]) % r[3] = 0
InSpans(cp, spans) == \E k \in 1..Len(spans) : cp >= spans[k][1] /\ cp <= spans[k][2]

\* the case mapping of one code point, a tuple of code points: the special
\* mapping if it has one, else the simple mapping, else itself
CaseMapped(cp, special, runs) ==
  IF \E k \in 1..Len(special) : special[k][1] = cp
  THEN special[CHOOSE k \in 1..Len(special) : special[k][1] = cp][2]
  ELSE IF \E k \in 1..Len(runs) : InRun(cp, runs[k])
  THEN <<cp + runs[CHOOSE k \in 1..Len(runs) : InRun(cp, runs[k])][4]>>
  ELSE <<cp>>

UpperPoint(cp) ==
  IF cp < 128 THEN (IF cp \in 97..122 THEN <<cp - 32>> ELSE <<cp>>)
  ELSE CaseMapped(cp, UpperSpecial, UpperRuns)

IsCased(cp) ==
  IF cp < 128 THEN cp \in 65..90 \/ cp \in 97..122 ELSE InSpans(cp, CasedSpans)
IsCaseIgnorable(cp) ==
  IF cp < 128 THEN cp \in {39, 46, 58, 94, 96} ELSE InSpans(cp, IgnorableSpans)

\* Final_Sigma: the code point at k follows a cased letter and no cased letter
\* follows it, case-ignorable code points aside
FinalSigma(cps, k) ==
  /\ \E j \in 1..(k - 1) :
       IsCased(cps[j]) /\ \A m \in (j + 1)..(k - 1) : IsCaseIgnorable(cps[m])
  /\ ~\E j \in (k + 1)..Len(cps) :
       IsCased(cps[j]) /\ \A m \in (k + 1)..(j - 1) : IsCaseIgnorable(cps[m])

LowerPoint(cps, k) ==
  IF cps[k] < 128 THEN (IF cps[k] \in 65..90 THEN <<cps[k] + 32>> ELSE <<cps[k]>>)
  ELSE IF cps[k] = 931 THEN (IF FinalSigma(cps, k) THEN <<962>> ELSE <<963>>)
  ELSE CaseMapped(cps[k], LowerSpecial, LowerRuns)

ToUpperChar(c) ==
  IF c \in LowerSet THEN UpperSeq[CHOOSE k \in 1..Len(LowerSeq) : LowerSeq[k] = c]
  ELSE c
ToLowerChar(c) ==
  IF c \in UpperSet THEN LowerSeq[CHOOSE k \in 1..Len(UpperSeq) : UpperSeq[k] = c]
  ELSE c

UpperPoints(cps) == [k \in 1..Len(cps) |-> UpperPoint(cps[k])]
LowerPoints(cps) == [k \in 1..Len(cps) |-> LowerPoint(cps, k)]

\* String.prototype.toUpperCase / toLowerCase
toUpperCase(s) ==
  IF IsAsciiText(s) THEN [k \in 1..Len(s) |-> ToUpperChar(s[k])]
  ELSE UnitsOfAll(UpperPoints(CodePointsFrom(s, 1)), 1)
toLowerCase(s) ==
  IF IsAsciiText(s) THEN [k \in 1..Len(s) |-> ToLowerChar(s[k])]
  ELSE UnitsOfAll(LowerPoints(CodePointsFrom(s, 1)), 1)

\* s.slice(from - 1) in 1-based positions: the text from position `from` on
From(s, from) == SubSeq(s, from, Len(s))

\* the text `needle` occurs in s at position p
OccursAt(s, needle, p) ==
  /\ p >= 1
  /\ p + Len(needle) - 1 <= Len(s)
  /\ \A k \in 1..Len(needle) : s[p + k - 1] = needle[k]

\* String.prototype.includes
includes(s, needle) == \E p \in 1..(Len(s) + 1) : OccursAt(s, needle, p)

\* String.prototype.startsWith
startsWith(s, needle) == OccursAt(s, needle, 1)

\* String.prototype.indexOf for one character, 1-based; 0 when it does not occur
indexOf(s, c) ==
  IF \E k \in 1..Len(s) : s[k] = c
  THEN CHOOSE k \in 1..Len(s) : s[k] = c /\ \A j \in 1..(k - 1) : s[j] # c
  ELSE 0

\* String.prototype.trim
trim(s) ==
  IF AllIn(s, WhiteSpace) THEN <<>>
  ELSE LET a == CHOOSE k \in 1..Len(s) :
                  s[k] \notin WhiteSpace /\ \A j \in 1..(k - 1) : s[j] \in WhiteSpace
           b == CHOOSE k \in 1..Len(s) :
                  s[k] \notin WhiteSpace /\ \A j \in (k + 1)..Len(s) : s[j] \in WhiteSpace
       IN SubSeq(s, a, b)

RECURSIVE split(_, _)
\* String.prototype.split for a one-character separator: a tuple of strings
split(s, sep) ==
  LET k == indexOf(s, sep)
  IN IF k = 0 THEN <<s>>
     ELSE <<SubSeq(s, 1, k - 1)>> \o split(From(s, k + 1), sep)

RECURSIVE join(_, _)
\* Array.prototype.join
join(parts, sep) ==
  IF Len(parts) = 0 THEN <<>>
  ELSE IF Len(parts) = 1 THEN parts[1]
  ELSE parts[1] \o sep \o join(Tail(parts), sep)

\* the end (last position) of the longest run of characters of `set` starting
\* at p; p - 1 when s[p] is not in the set
RunEnd(s, p, set) ==
  IF p > Len(s) \/ s[p] \notin set THEN p - 1
  ELSE IF \A j \in p..Len(s) : s[j] \in set THEN Len(s)
  ELSE (CHOOSE k \in p..Len(s) : s[k] \notin set /\ \A j \in p..(k - 1) : s[j] \in set) - 1

\* as RunEnd, for the characters outside `set`
RunEndNot(s, p, set) ==
  IF p > Len(s) \/ s[p] \in set THEN p - 1
  ELSE IF \A j \in p..Len(s) : s[j] \notin set THEN Len(s)
  ELSE (CHOOSE k \in p..Len(s) : s[k] \in set /\ \A j \in p..(k - 1) : s[j] \notin set) - 1

\* the first position from p on whose character is in set, Len(text) + 1
\* when there is none
NextIn(text, p, set) == RunEndNot(text, p, set) + 1

\* s has the digits-and-punctuation shape `shape` at position p, where "d" of
\* the shape stands for \d and every other character for itself
HasShape(s, p, shape) ==
  /\ p + Len(shape) - 1 <= Len(s)
  /\ \A k \in 1..Len(shape) :
       IF shape[k] = "d" THEN s[p + k - 1] \in Digits ELSE s[p + k - 1] = shape[k]

(***************************************************************************)
(* JSON values, as JSON.parse builds them.  Every value is a record of the *)
(* same shape: t is its type, s its text (the characters of a string,      *)
(* "true"/"false" of a boolean, and of a number the text of its value, by  *)
(* which two literals of the same double are the same value) and kv its    *)
(* members in property order, each a pair <<key, value>> (an array's keys  *)
(* are its indices).  JsUndefined is what a property read yields for a     *)
(* missing key.                                                            *)
(***************************************************************************)
JsUndefined == [t |-> "undefined", s |-> <<>>, kv |-> <<>>]
JsNull == [t |-> "null", s |-> <<>>, kv |-> <<>>]
JsBool(b) == [t |-> "boolean", s |-> IF b THEN <<"t","r","u","e">> ELSE <<"f","a","l","s","e">>, kv |-> <<>>]
JsStr(s) == [t |-> "string", s |-> s, kv |-> <<>>]
JsObj(kv) == [t |-> "object", s |-> <<>>, kv |-> kv]
JsArr(kv) == [t |-> "array", s |-> <<>>, kv |-> kv]

HasKey(kv, k) == \E j \in 1..Len(kv) : kv[j][1] = k

\* obj[k]: the own property k of a parsed object, undefined when missing
Get(obj, k) ==
  IF obj.t = "object" /\ HasKey(obj.kv, k)
  THEN (obj.kv[CHOOSE j \in 1..Len(obj.kv) : obj.kv[j][1] = k])[2]
  ELSE JsUndefined

\* a < b for two runs of digits without leading zeros
DigitsLess(a, b) ==
  \/ Len(a) < Len(b)
  \/ /\ Len(a) = Len(b)
     /\ \E j \in 1..Len(a) : /\ DigitVal(a[j]) < DigitVal(b[j])
                              /\ \A m \in 1..(j - 1) : a[m] = b[m]

\* the key is an array index: the canonical text of an integer of 0..2^32 - 2
IsArrayIndex(k) ==
  /\ Len(k) > 0
  /\ AllIn(k, Digits)
  /\ (k[1] # "0" \/ Len(k) = 1)
  /\ DigitsLess(k, <<"4","2","9","4","9","6","7","2","9","5">>)

\* defining a member: a repeated key keeps its place and takes the last
\* value; the array-index keys come first, in ascending order, and the other
\* keys after them in the order they were written
ObjPut(kv, k, v) ==
  IF HasKey(kv, k)
  THEN [j \in 1..Len(kv) |-> IF kv[j][1] = k THEN <<k, v>> ELSE kv[j]]
  ELSE IF IsArrayIndex(k)
  THEN LET n == Cardinality({j \in 1..Len(kv) :
                               IsArrayIndex(kv[j][1]) /\ DigitsLess(kv[j][1], k)})
       IN SubSeq(kv, 1, n) \o <<<<k, v>>>> \o SubSeq(kv, n + 1, Len(kv))
  ELSE Append(kv, <<k, v>>)

(***************************************************************************)
(* Numbers.  The value of a number literal is the IEEE 754 double nearest  *)
(* to it (ties to even), and Number.prototype.toString prints the shortest *)
(* decimal that reads back as that double.  The arithmetic is exact: a     *)
(* natural number of any size is a tuple of limbs in 0..999, the least     *)
(* significant first, without leading zero limbs; a decimal is a tuple of  *)
(* digits 0..9, the most significant first.  The steps are functions, so   *)
(* that a value is computed once where it is passed on.                    *)
(***************************************************************************)
MaxOf(a, b) == IF a > b THEN a ELSE b
MinOf(a, b) == IF a < b THEN a ELSE b
Zeros(n) == [k \in 1..n |-> 0] \o <<>>
Limb(a, k) == IF k >= 1 /\ k <= Len(a) THEN a[k] ELSE 0
Limbs == Seq(Int)
Decimal == Seq(0..9)

\* without the leading zero limbs
Trimmed[a \in Limbs] ==
  IF \A k \in 1..Len(a) : a[k] = 0 THEN <<>>
  ELSE SubSeq(a, 1, CHOOSE k \in 1..Len(a) : a[k] # 0 /\ \A j \in (k + 1)..Len(a) : a[j] = 0)

\* limbs that may be out of 0..999 brought into range, by passes of carries
\* (or borrows)
Normal[a \in Limbs] ==
  IF \A k \in 1..Len(a) : a[k] \in 0..999 THEN Trimmed[a]
  ELSE Normal[[k \in 1..(Len(a) + 1) |-> (Limb(a, k) % 1000) + (Limb(a, k - 1) \div 1000)] \o <<>>]

BigAdd[a \in Limbs, b \in Limbs] ==
  Normal[[k \in 1..MaxOf(Len(a), Len(b)) |-> Limb(a, k) + Limb(b, k)] \o <<>>]
\* a - b, for a >= b
BigSub[a \in Limbs, b \in Limbs] ==
  Normal[[k \in 1..MaxOf(Len(a), Len(b)) |-> Limb(a, k) - Limb(b, k)] \o <<>>]

\* the sum of a[j] * b[k + 1 - j] over the j for which both limbs exist
ConvAt(a, b, k) ==
  LET Sum[lo \in Int, hi \in Int] ==
        IF lo > hi THEN 0
        ELSE IF lo = hi THEN a[lo] * b[k + 1 - lo]
        ELSE Sum[lo, (lo + hi) \div 2] + Sum[((lo + hi) \div 2) + 1, hi]
  IN Sum[MaxOf(1, k + 1 - Len(b)), MinOf(k, Len(a))]

BigMul[a \in Limbs, b \in Limbs] ==
  IF Len(a) = 0 \/ Len(b) = 0 THEN <<>>
  ELSE Normal[[k \in 1..(Len(a) + Len(b) - 1) |-> ConvAt(a, b, k)] \o <<>>]

BigLess[a \in Limbs, b \in Limbs] ==
  \/ Len(a) < Len(b)
  \/ /\ Len(a) = Len(b)
     /\ \E j \in 1..Len(a) : a[j] < b[j] /\ \A m \in (j + 1)..Len(a) : a[m] = b[m]

\* a * a, times c when odd
SquareTimes[a \in Limbs, c \in 0..999, odd \in BOOLEAN] ==
  BigMul[a, IF odd THEN BigMul[a, <<c>>] ELSE a]

\* c to the power n, for a limb c
BigPow[c \in 0..999, n \in Nat] ==
  IF n = 0 THEN <<1>> ELSE SquareTimes[BigPow[c, n \div 2], c, n % 2 = 1]

\* the natural number a decimal writes
FromDigits[d \in Decimal] ==
  Trimmed[[k \in 1..((Len(d) + 2) \div 3) |->
             100 * Limb(d, Len(d) - 3 * k + 1) + 10 * Limb(d, Len(d) - 3 * k + 2)
             + Limb(d, Len(d) - 3 * k + 3)] \o <<>>]

\* d without its leading zeros
StripLeading[d \in Decimal] ==
  IF \A k \in 1..Len(d) : d[k] = 0 THEN <<>>
  ELSE SubSeq(d, CHOOSE k \in 1..Len(d) : d[k] # 0 /\ \A j \in 1..(k - 1) : d[j] = 0, Len(d))
\* d without its trailing zeros
StripTrailing[d \in Decimal] ==
  IF \A k \in 1..Len(d) : d[k] = 0 THEN <<>>
  ELSE SubSeq(d, 1, CHOOSE k \in 1..Len(d) : d[k] # 0 /\ \A j \in (k + 1)..Len(d) : d[j] = 0)

\* the decimal of a natural number, without leading zeros
ToDigits[a \in Limbs] ==
  StripLeading[[u \in 1..(3 * Len(a)) |->
                  CASE (u - 1) % 3 = 0 -> a[Len(a) - ((u - 1) \div 3)] \div 100
                    [] (u - 1) % 3 = 1 -> (a[Len(a) - ((u - 1) \div 3)] \div 10) % 10
                    [] OTHER -> a[Len(a) - ((u - 1) \div 3)] % 10] \o <<>>]

\* a < b for two decimals of the same length
DecLess[a \in Decimal, b \in Decimal] ==
  \E j \in 1..Len(a) : a[j] < b[j] /\ \A m \in 1..(j - 1) : a[m] = b[m]
\* d with leading zeros, n digits long
PadTo[d \in Decimal, n \in Nat] == Zeros(n - Len(d)) \o d

\* 2^52 and 2^53
TwoTo52 == <<496, 370, 627, 599, 503, 4>>
TwoTo53 == <<992, 740, 254, 199, 7, 9>>

\* the quotient digit d fits: (acc d 0...0) * D <= A, for a quotient of `width` digits
Fits(A, D, acc, d, width) ==
  ~BigLess[A, BigMul[FromDigits[acc \o <<d>> \o Zeros(width - Len(acc) - 1)], D]]

\* the decimal of floor(A / D), `width` digits long, acc its digits so far:
\* the next digit is the largest that fits, and with a digit every smaller
\* one fits
QuotFrom[A \in Limbs, D \in Limbs, acc \in Decimal, width \in Nat] ==
  IF Len(acc) = width THEN acc
  ELSE QuotFrom[A, D,
                Append(acc, Cardinality({d \in 1..9 : Fits(A, D, acc, d, width)})),
                width]

\* the fraction A0 / D0 divided by 2^q, as a numerator and a denominator
NumeratorAt[A0 \in Limbs, q \in Int] == IF q < 0 THEN BigMul[A0, BigPow[2, 0 - q]] ELSE A0
DenominatorAt[D0 \in Limbs, q \in Int] == IF q > 0 THEN BigMul[D0, BigPow[2, q]] ELSE D0

\* the least binary exponent q from q on with A0 / D0 < 2^53 * 2^q
ExponentFrom[A0 \in Limbs, D0 \in Limbs, q \in Int] ==
  IF BigLess[NumeratorAt[A0, q], BigMul[DenominatorAt[D0, q], TwoTo53]] THEN q
  ELSE ExponentFrom[A0, D0, q + 1]

\* a double: zero, infinite, or the significand m (a natural number below
\* 2^53) times 2^q, with m >= 2^52 unless q = -1074
DoubleOf[m \in Limbs, q \in Int] ==
  IF Len(m) = 0 THEN [kind |-> "zero", m |-> <<>>, q |-> 0]
  ELSE IF m = TwoTo53 THEN
    (IF q + 1 > 971 THEN [kind |-> "infinite", m |-> <<>>, q |-> 0]
     ELSE [kind |-> "finite", m |-> TwoTo52, q |-> q + 1])
  ELSE IF q > 971 THEN [kind |-> "infinite", m |-> <<>>, q |-> 0]
  ELSE [kind |-> "finite", m |-> m, q |-> q]

\* m or m + 1: the latter when half, (2m + 1) * D, is below twice, 2 * A, or
\* equal to it with m odd
RoundedUp[half \in Limbs, twice \in Limbs, m \in Limbs] ==
  IF BigLess[half, twice] \/ (half = twice /\ Limb(m, 1) % 2 = 1)
  THEN BigAdd[m, <<1>>]
  ELSE m

\* A / D rounded to a whole number, ties to even, given m = floor(A / D)
RoundedQuotient[A \in Limbs, D \in Limbs, m \in Limbs] ==
  RoundedUp[BigMul[BigAdd[BigAdd[m, m], <<1>>], D], BigAdd[A, A], m]

RoundedAt[A \in Limbs, D \in Limbs, q \in Int] ==
  DoubleOf[RoundedQuotient[A, D, FromDigits[QuotFrom[A, D, <<>>, 16]]], q]
NearestAt[A0 \in Limbs, D0 \in Limbs, q \in Int] ==
  RoundedAt[NumeratorAt[A0, q], DenominatorAt[D0, q], q]
NearestOf[A0 \in Limbs, D0 \in Limbs, q0 \in Int] == NearestAt[A0, D0, ExponentFrom[A0, D0, q0]]

\* the double nearest to 0.sig * 10^n, for a decimal sig without leading or
\* trailing zeros and -330 < n < 311
Nearest[sig \in Decimal, n \in Int] ==
  NearestOf[FromDigits[sig \o Zeros(MaxOf(n - Len(sig), 0))],
            FromDigits[<<1>> \o Zeros(MaxOf(Len(sig) - n, 0))],
            MaxOf((((n - 1) * 33219) \div 10000) - 54, 0 - 1074)]

\* X cut after j digits, and the next decimal of j digits above it (empty
\* when there is none of the same length)
CutDown[X \in Decimal, j \in Nat] == [u \in 1..Len(X) |-> IF u <= j THEN X[u] ELSE 0] \o <<>>
CutUp[X \in Decimal, j \in Nat] ==
  IF \A u \in 1..j : X[u] = 9 THEN <<>>
  ELSE [u \in 1..Len(X) |->
          IF \E m \in u..j : X[m] # 9
          THEN (IF \E m \in (u + 1)..j : X[m] # 9 THEN X[u] ELSE X[u] + 1)
          ELSE 0] \o <<>>

\* the decimal c reads back as the double whose rounding interval is L..H,
\* closed when the significand is even
ReadsBack[c \in Decimal, L \in Decimal, H \in Decimal, even \in BOOLEAN] ==
  /\ Len(c) > 0
  /\ IF even THEN ~DecLess[c, L] /\ ~DecLess[H, c] ELSE DecLess[L, c] /\ DecLess[c, H]

\* X is nearer to CutUp[X, j] than to CutDown[X, j]; halfway, the even digit wins
NearerUp(X, j) ==
  /\ j < Len(X)
  /\ \/ X[j + 1] > 5
     \/ X[j + 1] = 5 /\ \E u \in (j + 2)..Len(X) : X[u] # 0
     \/ X[j + 1] = 5 /\ (\A u \in (j + 2)..Len(X) : X[u] = 0) /\ X[j] % 2 = 1

ShortestAt[X \in Decimal, L \in Decimal, H \in Decimal, even \in BOOLEAN, j \in Nat] ==
  IF ReadsBack[CutUp[X, j], L, H, even]
     /\ (NearerUp(X, j) \/ ~ReadsBack[CutDown[X, j], L, H, even])
  THEN CutUp[X, j]
  ELSE CutDown[X, j]

\* the shortest decimal in the rounding interval L..H of the double X, the
\* nearest to X if there are several
ShortestIn[X \in Decimal, L \in Decimal, H \in Decimal, even \in BOOLEAN] ==
  ShortestAt[X, L, H, even,
             CHOOSE j \in 1..Len(X) :
               /\ ReadsBack[CutDown[X, j], L, H, even] \/ ReadsBack[CutUp[X, j], L, H, even]
               /\ \A u \in 1..(j - 1) :
                    ~(ReadsBack[CutDown[X, u], L, H, even] \/ ReadsBack[CutUp[X, u], L, H, even])]

\* a decimal value: 0.digits * 10^point, digits without leading or trailing zeros
DecimalAt[c \in Decimal, k \in Nat] == [digits |-> StripTrailing[c], point |-> Len(c) - k]
DecimalOf[c \in Decimal, k \in Nat] == DecimalAt[StripLeading[c], k]

\* the three decimals X, L, H written to the length of H
PaddedIn[X \in Decimal, L \in Decimal, H \in Decimal, even \in BOOLEAN] ==
  ShortestIn[PadTo[X, Len(H)], PadTo[L, Len(H)], H, even]

\* the shortest decimal of the double m * 2^q, from 4m, the unit T (2^(q-2),
\* or 5^(2-q) over 10^(2-q)) and the distance to the double below, in quarters
ShortestFrom[m4 \in Limbs, T \in Limbs, below \in 1..2, even \in BOOLEAN, k \in Nat] ==
  DecimalOf[PaddedIn[ToDigits[BigMul[m4, T]],
                     ToDigits[BigMul[BigSub[m4, <<below>>], T]],
                     ToDigits[BigMul[BigAdd[m4, <<2>>], T]],
                     even],
            k]

Shortest[m \in Limbs, q \in Int] ==
  ShortestFrom[BigMul[m, <<4>>],
               IF q >= 2 THEN BigPow[2, q - 2] ELSE BigPow[5, 2 - q],
               IF m = TwoTo52 /\ q > 0 - 1074 THEN 1 ELSE 2,
               Limb(m, 1) % 2 = 0,
               IF q >= 2 THEN 0 ELSE 2 - q]

\* the characters of a number literal of JSON
NumberChars == Digits \cup {"-", "+", ".", "e", "E"}
NumberLiteral == Seq(NumberChars)

\* the digits of a literal's mantissa, and the digits before its point
MantissaEnd(lit) ==
  IF \E k \in 1..Len(lit) : lit[k] \in {"e", "E"}
  THEN (CHOOSE k \in 1..Len(lit) : lit[k] \in {"e", "E"}) - 1
  ELSE Len(lit)
MantissaFrom(lit) == IF lit[1] = "-" THEN 2 ELSE 1
MantissaPoint(lit) == \E k \in 1..MantissaEnd(lit) : lit[k] = "."
IntegerLength(lit) ==
  IF MantissaPoint(lit)
  THEN (CHOOSE k \in MantissaFrom(lit)..MantissaEnd(lit) : lit[k] = ".") - MantissaFrom(lit)
  ELSE MantissaEnd(lit) - MantissaFrom(lit) + 1
MantissaDigits[lit \in NumberLiteral] ==
  [j \in 1..(MantissaEnd(lit) - MantissaFrom(lit) + 1 - (IF MantissaPoint(lit) THEN 1 ELSE 0)) |->
     DigitVal(lit[MantissaFrom(lit) - 1 + j
                  + (IF MantissaPoint(lit) /\ j > IntegerLength(lit) THEN 1 ELSE 0)])] \o <<>>

\* the natural number of at most six digits that a decimal writes, 999999
\* for a longer one
Capped[d \in Decimal] ==
  IF Len(d) > 6 THEN 999999
  ELSE 100000 * Limb(d, Len(d) - 5) + 10000 * Limb(d, Len(d) - 4) + 1000 * Limb(d, Len(d) - 3)
       + 100 * Limb(d, Len(d) - 2) + 10 * Limb(d, Len(d) - 1) + Limb(d, Len(d))

\* the exponent a literal writes, capped at 999999 either way
ExponentDigits[lit \in NumberLiteral, from \in Nat] ==
  StripLeading[[j \in 1..(Len(lit) - from + 1) |-> DigitVal(lit[from - 1 + j])] \o <<>>]
WrittenExponent[lit \in NumberLiteral] ==
  IF MantissaEnd(lit) = Len(lit) THEN 0
  ELSE IF lit[MantissaEnd(lit) + 2] = "-" THEN 0 - Capped[ExponentDigits[lit, MantissaEnd(lit) + 3]]
  ELSE IF lit[MantissaEnd(lit) + 2] = "+" THEN Capped[ExponentDigits[lit, MantissaEnd(lit) + 3]]
  ELSE Capped[ExponentDigits[lit, MantissaEnd(lit) + 2]]

\* digits beyond the 800th cannot decide a rounding (a double, or the
\* midpoint of two, has fewer): they count as one digit that is not zero
Significant(d) == IF Len(d) > 800 THEN SubSeq(d, 1, 800) \o <<1>> ELSE d

\* a double as a decimal: its kind and, if finite, the shortest decimal
\* that reads back as it
Finite[r \in [digits : Decimal, point : Int]] ==
  [kind |-> "finite", digits |-> r.digits, point |-> r.point]
CanonicalDouble[x \in [kind : {"zero", "finite", "infinite"}, m : Limbs, q : Int]] ==
  IF x.kind # "finite" THEN [kind |-> x.kind, digits |-> <<>>, point |-> 0]
  ELSE Finite[Shortest[x.m, x.q]]

\* the double of 0.sig * 10^n, sig without leading or trailing zeros
CanonicalOf[sig \in Decimal, n \in Int] ==
  IF Len(sig) = 0 \/ n < 0 - 325 THEN [kind |-> "zero", digits |-> <<>>, point |-> 0]
  ELSE IF n > 309 THEN [kind |-> "infinite", digits |-> <<>>, point |-> 0]
  ELSE IF Len(sig) <= 15 /\ n >= 0 - 306 /\ n <= 308
  THEN [kind |-> "finite", digits |-> sig, point |-> n]
  ELSE CanonicalDouble[Nearest[Significant(sig), n]]

\* the value of the mantissa digits d with p of them before the point, times
\* 10^e: of d without its leading zeros, with as many fewer before the point
CanonicalFrom[d \in Decimal, p \in Int] == CanonicalOf[StripTrailing[d], p + Len(d)]
CanonicalAt[d \in Decimal, p \in Int, e \in Int] ==
  CanonicalFrom[StripLeading[d], p - Len(d) + e]

\* the value of a number literal of JSON, a function of its text
ToNumber[lit \in NumberLiteral] ==
  CanonicalAt[MantissaDigits[lit], IntegerLength(lit), WrittenExponent[lit]]

\* the text of a decimal
DigitChars(d) == [k \in 1..Len(d) |-> HexSeq[d[k] + 1]] \o <<>>

\* Number::toString of the positive value 0.d * 10^n
FormatDecimal[d \in Decimal, n \in Int] ==
  IF Len(d) <= n /\ n <= 21 THEN DigitChars(d \o Zeros(n - Len(d)))
  ELSE IF 0 < n /\ n <= 21
  THEN DigitChars(SubSeq(d, 1, n)) \o <<".">> \o DigitChars(SubSeq(d, n + 1, Len(d)))
  ELSE IF 0 - 6 < n /\ n <= 0 THEN <<"0", ".">> \o DigitChars(Zeros(0 - n) \o d)
  ELSE DigitChars(<<d[1]>>)
       \o (IF Len(d) > 1 THEN <<".">> \o DigitChars(SubSeq(d, 2, Len(d))) ELSE <<>>)
       \o <<"e", IF n - 1 < 0 THEN "-" ELSE "+">>
       \o DigitChars(StripLeading[<<(IF n - 1 < 0 THEN 1 - n ELSE n - 1) \div 100,
                                    ((IF n - 1 < 0 THEN 1 - n ELSE n - 1) \div 10) % 10,
                                    (IF n - 1 < 0 THEN 1 - n ELSE n - 1) % 10>>])

\* the values of the number literals
CanonicalNumber == [kind : {"zero", "finite", "infinite"}, digits : Decimal, point : Int]

\* Number.prototype.toString of a value and its sign
TextOfNumber[x \in CanonicalNumber, negative \in BOOLEAN] ==
  CASE x.kind = "zero" -> <<"0">>
    [] x.kind = "infinite" ->
         (IF negative THEN <<"-">> ELSE <<>>) \o <<"I","n","f","i","n","i","t","y">>
    [] OTHER ->
         (IF negative THEN <<"-">> ELSE <<>>) \o FormatDecimal[x.digits, x.point]

\* Number.prototype.toString, a function of the literal
NumberText[lit \in NumberLiteral] == TextOfNumber[ToNumber[lit], lit[1] = "-"]
NumToString(lit) == NumberText[lit]

\* the number a literal of JSON denotes, as a value
JsNum(lit) == [t |-> "number", s |-> NumToString(lit), kv |-> <<>>]

\* the number is zero (the literals 0, -0, 0.0, 0e5, 1e-400): the falsy numbers
IsZero(text) == text = <<"0">>

\* the number is Infinity or -Infinity (the literals 1e309, -1e400)
IsInfinite(text) == text[Len(text)] = "y"

\* ToBoolean
Truthy(v) ==
  CASE v.t = "undefined" -> FALSE
    [] v.t = "null" -> FALSE
    [] v.t = "boolean" -> v.s = <<"t","r","u","e">>
    [] v.t = "string" -> Len(v.s) > 0
    [] v.t = "number" -> ~IsZero(v.s)
    [] OTHER -> TRUE

\* v !== undefined && v !== null
NotNullish(v) == v.t \notin {"undefined", "null"}

(***************************************************************************)
(* String(v) and template-literal conversion.  The result is a record      *)
(* [threw, s]: converting an object to a primitive calls its toString and  *)
(* valueOf; a parsed object whose own "toString" member shadows            *)
(* Object.prototype.toString has no callable toString, the inherited       *)
(* valueOf returns the object itself, and the conversion throws TypeError. *)
(***************************************************************************)
Threw == [threw |-> TRUE, s |-> <<>>]
Ok(s) == [threw |-> FALSE, s |-> s]

RECURSIVE String(_), JoinItems(_, _)
String(v) ==
  CASE v.t = "undefined" -> Ok(<<"u","n","d","e","f","i","n","e","d">>)
    [] v.t = "null" -> Ok(<<"n","u","l","l">>)
    [] v.t = "boolean" -> Ok(v.s)
    [] v.t = "string" -> Ok(v.s)
    [] v.t = "number" -> Ok(v.s)
    [] v.t = "object" ->
         IF HasKey(v.kv, <<"t","o","S","t","r","i","n","g">>) THEN Threw ELSE Ok(<<"[","o","b","j","e","c","t"," ","O","b","j","e","c","t","]">>)
    [] v.t = "array" -> JoinItems(v.kv, 1)

\* Array.prototype.join(","): null and undefined items print as "", every
\* other item as String(item)
JoinItems(kv, j) ==
  IF j > Len(kv) THEN Ok(<<>>)
  ELSE LET item == kv[j][2]
           head == IF NotNullish(item) THEN String(item) ELSE Ok(<<>>)
           rest == JoinItems(kv, j + 1)
       IN IF head.threw \/ rest.threw THEN Threw
          ELSE Ok(head.s \o (IF j < Len(kv) THEN <<",">> ELSE <<>>) \o rest.s)

(***************************************************************************)
(* JSON.parse: a strict recursive-descent parser.  Every parse operator    *)
(* returns [ok, v, p]: whether it succeeded, the value, and the position   *)
(* after the text it consumed.                                             *)
(***************************************************************************)
JsonWs == {" ", "\t", "\n", "\r"}
\* the code units below U+0020, which a string literal may not hold
ControlChars ==
  {"\t", "\n", "\r", "\f", "U+0000", "U+0001", "U+0002", "U+0003", "U+0004", "U+0005",
   "U+0006", "U+0007", "U+0008", "U+0009", "U+000A", "U+000B", "U+000C", "U+000D",
   "U+000E", "U+000F", "U+0010", "U+0011", "U+0012", "U+0013", "U+0014", "U+0015",
   "U+0016", "U+0017", "U+0018", "U+0019", "U+001A", "U+001B", "U+001C", "U+001D",
   "U+001E", "U+001F"}
HexDigits == Digits \cup {"a","b","c","d","e","f","A","B","C","D","E","F"}
Fail == [ok |-> FALSE, v |-> JsUndefined, p |-> 0]
Parsed(v, p) == [ok |-> TRUE, v |-> v, p |-> p]

SkipWs(s, p) == RunEnd(s, p, JsonWs) + 1

\* the character an escape \c denotes; the control characters \b and \f
\* are written by their code
Unescape(c) ==
  CASE c = "n" -> "\n" [] c = "r" -> "\r" [] c = "t" -> "\t"
    [] c = "b" -> "U+0008" [] c = "f" -> "U+000C" [] OTHER -> c

RECURSIVE ParseChars(_, _, _), ParseCharsTo(_, _, _, _)
\* the characters of a string literal from p (after the opening quote), acc
\* the characters read so far
ParseChars(s, p, acc) ==
  ParseCharsTo(s, p, acc, NextIn(s, p, {"\"", "\\"} \cup ControlChars))

\* the literal's characters up to `stop`, the first position from p on that
\* holds a quote, a backslash or a control character
ParseCharsTo(s, p, acc, stop) ==
  IF stop > Len(s) THEN Fail
  ELSE IF s[stop] = "\"" THEN Parsed(JsStr(acc \o SubSeq(s, p, stop - 1)), stop + 1)
  ELSE IF s[stop] \in ControlChars THEN Fail
  ELSE IF stop + 1 > Len(s) THEN Fail
  ELSE IF s[stop + 1] \in {"\"", "\\", "/", "b", "f", "n", "r", "t"}
    THEN ParseChars(s, stop + 2,
                    acc \o SubSeq(s, p, stop - 1) \o <<Unescape(s[stop + 1])>>)
  ELSE IF s[stop + 1] = "u" /\ stop + 5 <= Len(s)
          /\ AllIn(SubSeq(s, stop + 2, stop + 5), HexDigits)
    THEN ParseChars(s, stop + 6,
                    acc \o SubSeq(s, p, stop - 1)
                        \o <<fromCharCode(Hex4(s[stop + 2], s[stop + 3], s[stop + 4], s[stop + 5]))>>)
  ELSE Fail

CharAt(s, p) == IF p >= 1 /\ p <= Len(s) THEN s[p] ELSE ""

\* the end of a number literal whose digits after the exponent sign start at
\* e1 and end at expEnd, 0 when there is none
ExponentEnd(e1, expEnd) == IF expEnd >= e1 THEN expEnd ELSE 0

\* ([eE][+-]?\d+)? after the fraction, which ends at fracEnd
NumberAfterFraction(s, fracEnd) ==
  IF CharAt(s, fracEnd + 1) \in {"e", "E"}
  THEN IF CharAt(s, fracEnd + 2) \in {"+", "-"}
       THEN ExponentEnd(fracEnd + 3, RunEnd(s, fracEnd + 3, Digits))
       ELSE ExponentEnd(fracEnd + 2, RunEnd(s, fracEnd + 2, Digits))
  ELSE fracEnd

\* (\.\d+)? after the integer part, whose digits are i0..intEnd
NumberAfterInt(s, i0, intEnd) ==
  IF intEnd < i0 THEN 0
  ELSE IF CharAt(s, intEnd + 1) = "."
  THEN IF RunEnd(s, intEnd + 2, Digits) >= intEnd + 2
       THEN NumberAfterFraction(s, RunEnd(s, intEnd + 2, Digits))
       ELSE 0
  ELSE NumberAfterFraction(s, intEnd)

\* (0|[1-9]\d*) from i0
NumberInt(s, i0) ==
  NumberAfterInt(s, i0, IF CharAt(s, i0) = "0" THEN i0 ELSE RunEnd(s, i0, Digits))

\* the end of the number literal at p, 0 when there is none:
\* -?(0|[1-9]\d*)(\.\d+)?([eE][+-]?\d+)?
NumberEnd(s, p) == NumberInt(s, IF CharAt(s, p) = "-" THEN p + 1 ELSE p)

\* the number whose literal is s[p..end]
NumberTo(s, p, end) ==
  IF end = 0 THEN Fail ELSE Parsed(JsNum(SubSeq(s, p, end)), end + 1)
ParseNumber(s, p) == NumberTo(s, p, NumberEnd(s, p))

RECURSIVE IndexKey(_)
\* the text of an array index
IndexKey(n) ==
  IF n < 10 THEN <<HexSeq[n + 1]>> ELSE IndexKey(n \div 10) \o <<HexSeq[(n % 10) + 1]>>

RECURSIVE ParseValue(_, _), ParseMembers(_, _, _), ParseElements(_, _, _)
\* the JSON value that starts at p, a position that holds a character
ValueAt(s, p) ==
  CASE s[p] = "{" ->
         IF CharAt(s, SkipWs(s, p + 1)) = "}"
         THEN Parsed(JsObj(<<>>), SkipWs(s, p + 1) + 1)
         ELSE ParseMembers(s, SkipWs(s, p + 1), <<>>)
    [] s[p] = "[" ->
         IF CharAt(s, SkipWs(s, p + 1)) = "]"
         THEN Parsed(JsArr(<<>>), SkipWs(s, p + 1) + 1)
         ELSE ParseElements(s, SkipWs(s, p + 1), <<>>)
    [] s[p] = "\"" -> ParseChars(s, p + 1, <<>>)
    [] s[p] \in Digits \cup {"-"} -> ParseNumber(s, p)
    [] s[p] = "t" /\ OccursAt(s, <<"t","r","u","e">>, p) -> Parsed(JsBool(TRUE), p + 4)
    [] s[p] = "f" /\ OccursAt(s, <<"f","a","l","s","e">>, p) -> Parsed(JsBool(FALSE), p + 5)
    [] s[p] = "n" /\ OccursAt(s, <<"n","u","l","l">>, p) -> Parsed(JsNull, p + 4)
    [] OTHER -> Fail

\* a JSON value at p, after optional white space
ParseValue(s, p) ==
  IF SkipWs(s, p) > Len(s) THEN Fail ELSE ValueAt(s, SkipWs(s, p))

\* the members of an object from p (at a key), up to and including the "}":
\* a key, ":", a value, and then "," and the next member or the "}"
ParseMembers(s, p, kv) ==
  LET key == ParseChars(s, p + 1, <<>>)
      colon == SkipWs(s, key.p)
      val == ParseValue(s, colon + 1)
      q == SkipWs(s, val.p)
  IN CASE CharAt(s, p) # "\"" -> Fail
       [] CharAt(s, p) = "\"" /\ (~key.ok \/ CharAt(s, colon) # ":") -> Fail
       [] CharAt(s, p) = "\"" /\ key.ok /\ CharAt(s, colon) = ":" /\ ~val.ok -> Fail
       [] CharAt(s, p) = "\"" /\ key.ok /\ CharAt(s, colon) = ":" /\ val.ok ->
            CASE CharAt(s, q) = "}" -> Parsed(JsObj(ObjPut(kv, key.v.s, val.v)), q + 1)
              [] CharAt(s, q) = "," ->
                   ParseMembers(s, SkipWs(s, q + 1), ObjPut(kv, key.v.s, val.v))
              [] OTHER -> Fail

\* the elements of an array from p (at a value), up to and including the "]"
ParseElements(s, p, kv) ==
  LET val == ParseValue(s, p)
      q == SkipWs(s, val.p)
  IN CASE ~val.ok -> Fail
       [] val.ok /\ CharAt(s, q) = "]" ->
            Parsed(JsArr(Append(kv, <<IndexKey(Len(kv)), val.v>>)), q + 1)
       [] val.ok /\ CharAt(s, q) = "," ->
            ParseElements(s, q + 1, Append(kv, <<IndexKey(Len(kv)), val.v>>))
       [] OTHER -> Fail

\* the whole text was one value
WholeText(s, r) ==
  IF r.ok /\ SkipWs(s, r.p) = Len(s) + 1 THEN [ok |-> TRUE, v |-> r.v]
  ELSE [ok |-> FALSE, v |-> JsUndefined]

\* JSON.parse(s): [ok, v]; ok is FALSE where JSON.parse throws SyntaxError
JSONparse(s) == WholeText(s, ParseValue(s, 1))

(***************************************************************************)
(* Dates.  A valid Date is a record [kind, at]: at is an instant <<day,    *)
(* second of the day, millisecond>>, the day counted from 2000-01-01.  A   *)
(* Date of kind "utc" holds its instant in UTC; a Date read from a text    *)
(* that names no zone has kind "local" and holds the wall-clock time the   *)
(* text writes, which InstantOf places by the offset of the machine.  The  *)
(* clock the parser reads (new Date()) is a record [year, today, zone] of  *)
(* the current year, the current ISO date and the offset of local time.    *)
(*                                                                         *)
(* Date.parse is specified by ECMAScript for the ISO format only; for the  *)
(* other texts DateParse follows the date parser of V8 (Node.js, Chrome),  *)
(* the engine the README names: the text is cut into tokens, read as an    *)
(* ES5 date-time string as far as that goes and by the legacy rules from   *)
(* there, into a day composer (comp, month, iso), a time composer (time,   *)
(* offset) and a time zone composer (sign, hour, minute).                  *)
(***************************************************************************)
IsLeap(y) == (y % 4 = 0 /\ y % 100 # 0) \/ y % 400 = 0
LeapsBefore(y) == (y - 1) \div 4 - (y - 1) \div 100 + (y - 1) \div 400
DaysBeforeMonth == <<0, 31, 59, 90, 120, 151, 181, 212, 243, 273, 304, 334>>

\* the days from 2000-01-01 to day d of month mo of year y (MakeDay: a day
\* past the end of the month runs on into the next)
DayNumber(y, mo, d) ==
  365 * (y - 2000) + LeapsBefore(y) - LeapsBefore(2000) + DaysBeforeMonth[mo]
  + (IF mo > 2 /\ IsLeap(y) THEN 1 ELSE 0) + (d - 1)

\* the instant `seconds` after the instant inst
Shift(inst, seconds) ==
  <<inst[1] + ((inst[2] + seconds) \div 86400), (inst[2] + seconds) % 86400, inst[3]>>

\* a < b for two instants
Earlier(a, b) ==
  \/ a[1] < b[1]
  \/ a[1] = b[1] /\ a[2] < b[2]
  \/ a[1] = b[1] /\ a[2] = b[2] /\ a[3] < b[3]

\* 1970-01-01, the day the time value of a Date counts from, and the days a
\* time value reaches to either side of it (8.64e15 ms)
EpochDay == 0 - 10957
MaxDays == 100000000

\* TimeClip: the instant as a Date of the kind, or None (Invalid Date) when
\* it is more than 8.64e15 ms away from 1970-01-01
TimeClip(kind, inst) ==
  IF \/ inst[1] - EpochDay < 0 - MaxDays
     \/ inst[1] - EpochDay > MaxDays
     \/ inst[1] - EpochDay = MaxDays /\ (inst[2] > 0 \/ inst[3] > 0)
  THEN None
  ELSE Some([kind |-> kind, at |-> inst])

\* date.getTime() as an instant in UTC, on a machine whose local time is tz
\* hours ahead of UTC
InstantOf(date, tz) ==
  IF date.kind = "local" THEN Shift(date.at, 0 - tz * 3600) ELSE date.at

\* a token of the date text: a number (its value and its count of digits),
\* one of the symbols : - + . ) (the type is the symbol), a word (a month
\* name, am or pm, a zone name, the separator T, or any other word), one
\* white-space character, or something else
DateToken(type, value, length) == [type |-> type, value |-> value, length |-> length]
DateTokens == [type : STRING, value : Int, length : Int]
EndOfInput == DateToken("end", 0, 0)
DateSymbols == {":", "-", "+", ".", ")"}

\* the words the parser knows, with the type and value of each
Entry(word, type, value) == [word |-> word, type |-> type, value |-> value]
KeywordTable == <<
  Entry(<<"j","a","n">>, "month", 1), Entry(<<"f","e","b">>, "month", 2),
  Entry(<<"m","a","r">>, "month", 3), Entry(<<"a","p","r">>, "month", 4),
  Entry(<<"m","a","y">>, "month", 5), Entry(<<"j","u","n">>, "month", 6),
  Entry(<<"j","u","l">>, "month", 7), Entry(<<"a","u","g">>, "month", 8),
  Entry(<<"s","e","p">>, "month", 9), Entry(<<"o","c","t">>, "month", 10),
  Entry(<<"n","o","v">>, "month", 11), Entry(<<"d","e","c">>, "month", 12),
  Entry(<<"a","m">>, "ampm", 0), Entry(<<"p","m">>, "ampm", 12),
  Entry(<<"u","t">>, "zone", 0), Entry(<<"u","t","c">>, "zone", 0),
  Entry(<<"z">>, "zone", 0), Entry(<<"g","m","t">>, "zone", 0),
  Entry(<<"c","d","t">>, "zone", 0 - 5), Entry(<<"c","s","t">>, "zone", 0 - 6),
  Entry(<<"e","d","t">>, "zone", 0 - 4), Entry(<<"e","s","t">>, "zone", 0 - 5),
  Entry(<<"m","d","t">>, "zone", 0 - 6), Entry(<<"m","s","t">>, "zone", 0 - 7),
  Entry(<<"p","d","t">>, "zone", 0 - 7), Entry(<<"p","s","t">>, "zone", 0 - 8),
  Entry(<<"t">>, "separator", 0) >>

\* AsciiAlphaToLower: the code unit with bit 0x20 set
AsciiAlphaToLower(c) ==
  IF (CodeOf(c) \div 32) % 2 = 1 THEN c ELSE fromCharCode(CodeOf(c) + 32)

\* the entry of the table for a word, by the first three characters of the
\* word: only a month name may be longer than its entry
Matches(entry, word) ==
  /\ entry.word = [j \in 1..(IF Len(word) < 3 THEN Len(word) ELSE 3) |->
                     AsciiAlphaToLower(word[j])]
  /\ (Len(word) <= 3 \/ entry.type = "month")

\* the token of a word: of the entries of the table that it matches (none,
\* or the first of them)
KeywordOf[found \in Seq([word : Seq(STRING), type : STRING, value : Int]), length \in Nat] ==
  IF Len(found) = 0 THEN DateToken("word", 0, length)
  ELSE DateToken(found[1].type, found[1].value, length)
Keyword(word) == KeywordOf[SelectSeq(KeywordTable, LAMBDA entry : Matches(entry, word)), Len(word)]

\* the characters of a word: from "A" on, white space apart (IsWhiteSpace:
\* the line terminators U+2028 and U+2029 are no white space here, and are
\* characters of a word)
IsWordChar(c) == c \notin (WhiteSpace \ LineTerminators) /\ CodeOf(c) >= 65
WordEnd(s, p) ==
  RunEnd(s, p, {c \in {s[k] : k \in 1..Len(s)} : IsWordChar(c)})

\* ReadUnsignedNumeral: the value of a run of digits, of which the leading
\* zeros are skipped and the first nine digits after them are read
ReadUnsignedNumeral(run) ==
  NumVal(SubSeq(run, RunEnd(run, 1, {"0"}) + 1,
                IF Len(run) < RunEnd(run, 1, {"0"}) + 9 THEN Len(run)
                ELSE RunEnd(run, 1, {"0"}) + 9))

\* SkipParentheses: the position after the parenthesised text that opens at
\* p, which ends where its parentheses balance or the text ends
SkipParentheses(s, p) ==
  LET After[q \in 1..Len(s), open \in Int] ==
        IF (IF s[q] = "(" THEN open + 1 ELSE IF s[q] = ")" THEN open - 1 ELSE open) > 0
           /\ q < Len(s)
        THEN After[q + 1, IF s[q] = "(" THEN open + 1
                          ELSE IF s[q] = ")" THEN open - 1 ELSE open]
        ELSE q + 1
  IN After[p, 0]

\* DateStringTokenizer: the tokens of the text s from position p on
Scan[s \in Seq(STRING), p \in Nat] ==
  IF p > Len(s) THEN <<>>
  ELSE IF s[p] \in Digits
  THEN <<DateToken("number", ReadUnsignedNumeral(SubSeq(s, p, RunEnd(s, p, Digits))),
                   RunEnd(s, p, Digits) - p + 1)>>
       \o Scan[s, RunEnd(s, p, Digits) + 1]
  ELSE IF s[p] \in DateSymbols THEN <<DateToken(s[p], 0, 1)>> \o Scan[s, p + 1]
  ELSE IF IsWordChar(s[p])
  THEN <<Keyword(SubSeq(s, p, WordEnd(s, p)))>> \o Scan[s, WordEnd(s, p) + 1]
  ELSE IF s[p] \in WhiteSpace THEN <<DateToken("space", 0, 1)>> \o Scan[s, p + 1]
  ELSE IF s[p] = "("
  THEN <<DateToken("unknown", 0, SkipParentheses(s, p) - p)>> \o Scan[s, SkipParentheses(s, p)]
  ELSE <<DateToken("unknown", 0, 1)>> \o Scan[s, p + 1]

\* the text the tokenizer reads: it takes the code unit 0 for the end
UntilNul(s) == SubSeq(s, 1, RunEndNot(s, 1, {"U+0000"}))

Peek(t, p) == IF p >= 1 /\ p <= Len(t) THEN t[p] ELSE EndOfInput
IsFixedNumber(tok, n) == tok.type = "number" /\ tok.length = n
IsAsciiSign(tok) == tok.type \in {"+", "-"}
IsKeywordZ(tok) == tok.type = "zone" /\ tok.length = 1
Between(x, lo, hi) == lo <= x /\ x <= hi
IsMonth(x) == Between(x, 1, 12)
IsDay(x) == Between(x, 1, 31)
IsHour(x) == Between(x, 0, 23)
IsHour12(x) == Between(x, 0, 12)
IsMinute(x) == Between(x, 0, 59)
IsSecond(x) == Between(x, 0, 59)
IsMillisecond(x) == Between(x, 0, 999)

\* the value of a composer's field that is not set
kNone == 0 - 1

\* the composers (the sign of the zone is 0 when it is not set), and whether
\* the text is still a date (ok) and a number has been read (read)
Composers ==
  [comp : Seq(Int), month : Int, iso : BOOLEAN, time : Seq(Int), offset : Int,
   sign : Int, hour : Int, minute : Int, read : BOOLEAN, ok : BOOLEAN]
NoDate ==
  [comp |-> <<>>, month |-> kNone, iso |-> FALSE, time |-> <<>>, offset |-> kNone,
   sign |-> 0, hour |-> kNone, minute |-> kNone, read |-> FALSE, ok |-> TRUE]

\* ReadMilliseconds: the first three digits of a fraction of a second
ReadMilliseconds(tok) ==
  CASE tok.length = 1 -> tok.value * 100
    [] tok.length = 2 -> tok.value * 10
    [] tok.length = 3 -> tok.value
    [] tok.length = 4 -> tok.value \div 10
    [] tok.length = 5 -> tok.value \div 100
    [] tok.length = 6 -> tok.value \div 1000
    [] tok.length = 7 -> tok.value \div 10000
    [] tok.length = 8 -> tok.value \div 100000
    [] OTHER -> tok.value \div 1000000

\* TimeZoneComposer::Set: a zone of a whole number of hours
TzSet(st, hours) ==
  [st EXCEPT !.sign = IF hours < 0 THEN 0 - 1 ELSE 1,
             !.hour = IF hours < 0 THEN 0 - hours ELSE hours, !.minute = 0]

\* the parse is [st, p, legacy]: the composers, the token to go on from, and
\* whether the legacy rules go on from it
Parse(st, p, legacy) == [st |-> st, p |-> p, legacy |-> legacy]
Invalid == Parse([NoDate EXCEPT !.ok = FALSE], 0, FALSE)

\* the year of an ES5 date-time string: yyyy, or a sign and six digits.  A
\* sign without six digits after it is left to the legacy rules; the year
\* -000000 is no year, and the legacy rules go on after its digits
ES5Year[t \in Seq(DateTokens)] ==
  IF IsAsciiSign(Peek(t, 1))
  THEN IF ~IsFixedNumber(Peek(t, 2), 6) THEN Parse(NoDate, 1, TRUE)
       ELSE IF t[1].type = "-" /\ t[2].value = 0 THEN Parse(NoDate, 3, TRUE)
       ELSE Parse([NoDate EXCEPT !.comp = <<(IF t[1].type = "-" THEN 0 - 1 ELSE 1) * t[2].value>>],
                  3, FALSE)
  ELSE IF IsFixedNumber(Peek(t, 1), 4)
  THEN Parse([NoDate EXCEPT !.comp = <<t[1].value>>], 2, FALSE)
  ELSE Parse(NoDate, 1, TRUE)

\* and -MM and -DD after it
Parses == [st : Composers, p : Nat, legacy : BOOLEAN]
ES5DayAfter[t \in Seq(DateTokens), y \in Parses] ==
  LET month == Peek(t, y.p + 1)
      day == Peek(t, y.p + 3)
  IN IF y.legacy \/ Peek(t, y.p).type # "-" THEN y
     ELSE IF ~(IsFixedNumber(month, 2) /\ IsMonth(month.value)) THEN Parse(y.st, y.p + 1, TRUE)
     ELSE IF Peek(t, y.p + 2).type # "-"
     THEN Parse([y.st EXCEPT !.comp = Append(@, month.value)], y.p + 2, FALSE)
     ELSE IF ~(IsFixedNumber(day, 2) /\ IsDay(day.value))
     THEN Parse([y.st EXCEPT !.comp = Append(@, month.value)], y.p + 3, TRUE)
     ELSE Parse([y.st EXCEPT !.comp = Append(Append(@, month.value), day.value)], y.p + 4, FALSE)
ES5Day[t \in Seq(DateTokens)] == ES5DayAfter[t, ES5Year[t]]

\* the zone of an ES5 date-time string at token z, to the end of the text:
\* Z, +hh:mm, +hhmm, or nothing
ES5Zone[t \in Seq(DateTokens), z \in Nat, st \in Composers] ==
  LET sign == IF Peek(t, z).type = "+" THEN 1 ELSE 0 - 1
      hhmm == Peek(t, z + 1)
      mm == Peek(t, z + 3)
  IN IF IsKeywordZ(Peek(t, z))
     THEN IF z + 1 > Len(t) THEN Parse(TzSet(st, 0), z + 1, FALSE) ELSE Invalid
     ELSE IF ~IsAsciiSign(Peek(t, z))
     THEN IF z > Len(t) THEN Parse(st, z, FALSE) ELSE Invalid
     ELSE IF IsFixedNumber(hhmm, 4)
     THEN IF IsHour(hhmm.value \div 100) /\ IsMinute(hhmm.value % 100) /\ z + 2 > Len(t)
          THEN Parse([st EXCEPT !.sign = sign, !.hour = hhmm.value \div 100,
                                !.minute = hhmm.value % 100], z + 2, FALSE)
          ELSE Invalid
     ELSE IF /\ IsFixedNumber(hhmm, 2) /\ IsHour(hhmm.value)
             /\ Peek(t, z + 2).type = ":"
             /\ IsFixedNumber(mm, 2) /\ IsMinute(mm.value)
             /\ z + 4 > Len(t)
     THEN Parse([st EXCEPT !.sign = sign, !.hour = hhmm.value, !.minute = mm.value], z + 4, FALSE)
     ELSE Invalid

\* the time of an ES5 date-time string after the T at token p - 1:
\* HH:mm[:ss[.sss]] and the zone; hour 24 only as 24:00:00.000
ES5Time[t \in Seq(DateTokens), p \in Nat, st \in Composers] ==
  LET hour == Peek(t, p)
      minute == Peek(t, p + 2)
      second == Peek(t, p + 4)
      ms == Peek(t, p + 6)
      hasSecond == Peek(t, p + 3).type = ":"
      hasMs == Peek(t, p + 3).type = ":" /\ Peek(t, p + 5).type = "."
  IN IF \/ ~(IsFixedNumber(hour, 2) /\ Between(hour.value, 0, 24))
        \/ Peek(t, p + 1).type # ":"
        \/ ~(IsFixedNumber(minute, 2) /\ IsMinute(minute.value))
        \/ hour.value = 24 /\ minute.value > 0
        \/ hasSecond /\ ~(IsFixedNumber(second, 2) /\ IsSecond(second.value))
        \/ hasSecond /\ hour.value = 24 /\ second.value > 0
        \/ hasMs /\ ms.type # "number"
        \/ hasMs /\ hour.value = 24 /\ ms.value > 0
     THEN Invalid
     ELSE ES5Zone[t, p + 3 + (IF hasSecond THEN 2 ELSE 0) + (IF hasMs THEN 2 ELSE 0),
                  [st EXCEPT !.time = <<hour.value, minute.value>>
                                      \o (IF hasSecond THEN <<second.value>> ELSE <<>>)
                                      \o (IF hasMs THEN <<ReadMilliseconds(ms)>> ELSE <<>>)]]

\* ParseES5DateTime: the text as an ES5 date-time string, as far as it is
\* one; a date without a time is read in UTC
IsoIfOk[tm \in Parses] ==
  IF tm.st.ok THEN Parse([tm.st EXCEPT !.iso = TRUE], tm.p, FALSE) ELSE tm
ES5DateTimeAfter[t \in Seq(DateTokens), d \in Parses] ==
  IF d.legacy THEN d
  ELSE IF Peek(t, d.p).type = "separator" THEN IsoIfOk[ES5Time[t, d.p + 1, d.st]]
  ELSE IF d.p > Len(t) THEN Parse([TzSet(d.st, 0) EXCEPT !.iso = TRUE], d.p, FALSE)
  ELSE Parse(d.st, d.p, TRUE)
ParseES5DateTime[t \in Seq(DateTokens)] == ES5DateTimeAfter[t, ES5Day[t]]

\* TimeComposer::IsExpecting, TimeComposer::AddFinal
TimeIsExpecting(st, n) ==
  \/ Len(st.time) = 1 /\ IsMinute(n)
  \/ Len(st.time) = 2 /\ IsSecond(n)
  \/ Len(st.time) = 3 /\ IsMillisecond(n)
AddFinal(time, n) ==
  IF Len(time) >= 4 THEN time
  ELSE Append(time, n) \o SubSeq(<<0, 0, 0>>, 1, 3 - Len(time))

\* TimeZoneComposer::IsExpecting, TimeZoneComposer::IsUTC
TzIsExpecting(st, n) == st.hour # kNone /\ st.minute = kNone /\ IsMinute(n)
TzIsUTC(st) == st.hour = 0 /\ st.minute = 0

Stop(st) == Parse([st EXCEPT !.ok = FALSE], 0, TRUE)

\* a number of a legacy date: before ":" and after it a part of the time,
\* else a part of the day
LegacyNumber(t, p, st) ==
  LET n == t[p].value
      q == IF Peek(t, p + 1).type = "." THEN p + 2 ELSE p + 1
      was == [st EXCEPT !.read = TRUE]
  IN IF Peek(t, p + 1).type = ":"
     THEN IF Peek(t, p + 2).type = ":"
          THEN IF Len(st.time) > 0 THEN Stop(st)
               ELSE Parse([was EXCEPT !.time = <<n, 0>>], p + 3, TRUE)
          ELSE IF Len(st.time) >= 4 THEN Stop(st)
          ELSE Parse([was EXCEPT !.time = Append(@, n)],
                     IF Peek(t, p + 2).type = "." THEN p + 3 ELSE p + 2, TRUE)
     ELSE IF Peek(t, p + 1).type = "." /\ TimeIsExpecting(st, n)
     THEN IF Peek(t, p + 2).type # "number" THEN Stop(st)
          ELSE Parse([was EXCEPT !.time = AddFinal(Append(st.time, n), ReadMilliseconds(t[p + 2]))],
                     p + 3, TRUE)
     ELSE IF TzIsExpecting(st, n) THEN Parse([was EXCEPT !.minute = n], q, TRUE)
     ELSE IF TimeIsExpecting(st, n)
     THEN IF Peek(t, q).type \in {"end", "space", "+", "-"} \/ IsKeywordZ(Peek(t, q))
          THEN Parse([was EXCEPT !.time = AddFinal(st.time, n)], q, TRUE)
          ELSE Stop(st)
     ELSE IF Len(st.comp) >= 3 THEN Stop(st)
     ELSE Parse([was EXCEPT !.comp = Append(@, n)],
                IF Peek(t, q).type = "-" THEN q + 1 ELSE q, TRUE)

\* a word of a legacy date: am or pm after a time, a month name, a zone
\* name after a number; any other word only before the first number
LegacyKeyword(t, p, st) ==
  IF t[p].type = "ampm" /\ Len(st.time) > 0
  THEN Parse([st EXCEPT !.offset = t[p].value], p + 1, TRUE)
  ELSE IF t[p].type = "month"
  THEN Parse([st EXCEPT !.month = t[p].value],
             IF Peek(t, p + 1).type = "-" THEN p + 2 ELSE p + 1, TRUE)
  ELSE IF t[p].type = "zone" /\ st.read THEN Parse(TzSet(st, t[p].value), p + 1, TRUE)
  ELSE IF st.read \/ Peek(t, p + 1).type = "number" THEN Stop(st)
  ELSE Parse(st, p + 1, TRUE)

\* a sign after a time or after a zone name of UTC: the offset from UTC,
\* +h, +hh, +hmm, +hhmm or +hh:
LegacySign(t, p, st) ==
  LET n == IF Peek(t, p + 1).type = "number" THEN t[p + 1].value ELSE 0
      length == IF Peek(t, p + 1).type = "number" THEN t[p + 1].length ELSE 0
      q == IF Peek(t, p + 1).type = "number" THEN p + 2 ELSE p + 1
      was == [st EXCEPT !.sign = IF t[p].type = "+" THEN 1 ELSE 0 - 1, !.read = TRUE]
  IN IF Peek(t, q).type = ":" THEN Parse([was EXCEPT !.hour = n, !.minute = kNone], q, TRUE)
     ELSE IF length \in {1, 2} THEN Parse([was EXCEPT !.hour = n, !.minute = 0], q, TRUE)
     ELSE IF length \in {3, 4}
     THEN Parse([was EXCEPT !.hour = n \div 100, !.minute = n % 100], q, TRUE)
     ELSE Stop(st)

\* the legacy rules for the token p
LegacyToken(t, p, st) ==
  IF t[p].type = "number" THEN LegacyNumber(t, p, st)
  ELSE IF t[p].type \in {"month", "ampm", "zone", "separator", "word"} THEN LegacyKeyword(t, p, st)
  ELSE IF IsAsciiSign(t[p]) /\ (TzIsUTC(st) \/ Len(st.time) > 0) THEN LegacySign(t, p, st)
  ELSE IF (IsAsciiSign(t[p]) \/ t[p].type = ")") /\ st.read THEN Stop(st)
  ELSE Parse(st, p + 1, TRUE)

\* the loop over the tokens from the token r.p on: the composers at the end
Legacy[t \in Seq(DateTokens), r \in Parses] ==
  IF r.p > Len(t) \/ ~r.st.ok THEN r.st
  ELSE Legacy[t, LegacyToken(t, r.p, r.st)]

\* DateParser::Parse: the composers of the tokens, from what ParseES5DateTime
\* has read of them
ComposersFrom[t \in Seq(DateTokens), e \in Parses] ==
  IF ~e.st.ok THEN e.st
  ELSE Legacy[t, Parse([e.st EXCEPT !.read = Len(e.st.comp) > 0], e.p, TRUE)]
ComposersOf[t \in Seq(DateTokens)] == ComposersFrom[t, ParseES5DateTime[t]]

\* DayComposer::Write: <<year, month, day>> of the parts read, <<>> when
\* they make no day.  Missing parts are 1; without a month name the parts
\* are year-month-day when the first is no day of a month, else
\* month-day-year; a year below 50 is of this century, one below 100 of the
\* last
DayOf[st \in Composers, c \in Seq(Int)] ==
  LET ymd == IF st.month = kNone
             THEN IF st.iso \/ ~IsDay(c[1]) THEN c ELSE <<c[3], c[1], c[2]>>
             ELSE IF ~IsDay(c[1]) THEN <<c[1], st.month, c[2]>> ELSE <<c[2], st.month, c[1]>>
      year == IF st.iso THEN ymd[1]
              ELSE IF Between(ymd[1], 0, 49) THEN ymd[1] + 2000
              ELSE IF Between(ymd[1], 50, 99) THEN ymd[1] + 1900
              ELSE ymd[1]
  IN IF Len(st.comp) < 1 \/ ~IsMonth(ymd[2]) \/ ~IsDay(ymd[3]) THEN <<>>
     ELSE <<year, ymd[2], ymd[3]>>
DayWrite[st \in Composers] == DayOf[st, st.comp \o SubSeq(<<1, 1, 1>>, 1, 3 - Len(st.comp))]

\* TimeComposer::Write: <<hour, minute, second, millisecond>>, <<>> when the
\* parts make no time.  Missing parts are 0; hour 24 is the end of the day
TimeOf[st \in Composers, c \in Seq(Int)] ==
  LET hour == IF st.offset = kNone THEN c[1] ELSE (c[1] % 12) + st.offset
  IN IF st.offset # kNone /\ ~IsHour12(c[1]) THEN <<>>
     ELSE IF IsHour(hour) /\ IsMinute(c[2]) /\ IsSecond(c[3]) /\ IsMillisecond(c[4])
     THEN <<hour, c[2], c[3], c[4]>>
     ELSE IF hour = 24 /\ c[2] = 0 /\ c[3] = 0 /\ c[4] = 0 THEN <<hour, 0, 0, 0>>
     ELSE <<>>
TimeWrite[st \in Composers] == TimeOf[st, st.time \o SubSeq(<<0, 0, 0, 0>>, 1, 4 - Len(st.time))]

\* hour * 3600 + minute * 60 in 32 bits, as <<high half, low half>>
OffsetHalves(hour, minute) ==
  LET low == (hour % 65536) * 3600 + (minute % 65536) * 60
      high == (hour \div 65536) * 3600 + (minute \div 65536) * 60
  IN <<(high + (low \div 65536)) % 65536, low % 65536>>

\* TimeZoneComposer::Write: <<the offset from UTC in seconds>>, <<>> when the
\* offset is out of range
OffsetOf[sign \in Int, halves \in Seq(Int)] ==
  IF halves[1] >= 32768 THEN <<>>
  ELSE <<sign * (halves[1] * 65536 + halves[2])>>
TzWrite[st \in Composers] ==
  OffsetOf[st.sign, OffsetHalves(IF st.hour = kNone THEN 0 ELSE st.hour,
                                 IF st.minute = kNone THEN 0 ELSE st.minute)]

\* the Date of the composers: the day and the time written, in the zone
\* written (less its offset, in UTC) or else in the local time of the
\* machine, which is tz hours ahead of UTC
\* the Date of the wall-clock time `wall` in the zone written
DateInZone[wall \in Seq(Int), zone \in Seq(Int)] ==
  IF zone = <<>> THEN None
  ELSE TimeClip("utc", Shift(<<wall[1] - (zone[1] \div 86400), wall[2], wall[3]>>,
                             0 - (zone[1] % 86400)))
\* the Date of the wall-clock time `wall` of the machine: the time is
\* converted to UTC, and the time value in UTC is what TimeClip tests
DateInLocal[wall \in Seq(Int), tz \in Int] ==
  IF IsNone(TimeClip("utc", Shift(wall, 0 - tz * 3600))) THEN None
  ELSE Some([kind |-> "local", at |-> wall])
DateAtWall[st \in Composers, wall \in Seq(Int), tz \in Int] ==
  IF st.sign = 0 THEN DateInLocal[wall, tz] ELSE DateInZone[wall, TzWrite[st]]
DateWritten[st \in Composers, day \in Seq(Int), time \in Seq(Int), tz \in Int] ==
  IF ~st.ok \/ day = <<>> \/ time = <<>> THEN None
  ELSE IF day[1] < 0 - 1000000 \/ day[1] > 1000000 THEN None
  ELSE DateAtWall[st, <<DayNumber(day[1], day[2], day[3]) + (time[1] \div 24),
                        (time[1] % 24) * 3600 + time[2] * 60 + time[3], time[4]>>, tz]
DateOfComposers[st \in Composers, tz \in Int] ==
  DateWritten[st, DayWrite[st], TimeWrite[st], tz]

\* Date.parse, a function of the text and of the offset of local time
ParsedDate[s \in Seq(STRING), tz \in Int] ==
  DateOfComposers[ComposersOf[Scan[UntilNul(s), 1]], tz]

\* new Date(text) on a machine whose local time is tz hours ahead of UTC:
\* Some(date), or None for an Invalid Date
DateParse(s, tz) == ParsedDate[s, tz]

\* the time value a count of milliseconds is: the digits of its integer
\* part divided by the milliseconds of a day, <<days, milliseconds>>
DivideMs[d \in Decimal] ==
  LET DivideFrom[k \in Nat, q \in Int, r \in Int] ==
        IF k > Len(d) THEN <<q, r>>
        ELSE DivideFrom[k + 1, 10 * q + ((10 * r + d[k]) \div 86400000),
                        (10 * r + d[k]) % 86400000]
  IN DivideFrom[1, 0, 0]

\* the digits of the integer part of the value 0.d * 10^n
IntegerPart(d, n) ==
  IF n <= 0 THEN <<>>
  ELSE IF n <= Len(d) THEN SubSeq(d, 1, n)
  ELSE d \o Zeros(n - Len(d))

\* the largest time value, 8.64e15
MaxTime == <<8, 6, 4>> \o Zeros(13)

\* new Date(number), a function of the literal of the number: the instant
\* that many milliseconds (the fraction dropped) from 1970-01-01, an Invalid
\* Date when the number is not finite or beyond 8.64e15
DateOfCount[ms \in Seq(Int), negative \in BOOLEAN] ==
  IF ~negative
  THEN Some([kind |-> "utc", at |-> <<EpochDay + ms[1], ms[2] \div 1000, ms[2] % 1000>>])
  ELSE IF ms[2] = 0 THEN Some([kind |-> "utc", at |-> <<EpochDay - ms[1], 0, 0>>])
  ELSE Some([kind |-> "utc", at |-> <<EpochDay - ms[1] - 1, (86400000 - ms[2]) \div 1000,
                                      (86400000 - ms[2]) % 1000>>])
DateOfInteger[d \in Decimal, negative \in BOOLEAN] ==
  IF DecLess[MaxTime, PadTo[d, 16]] THEN None ELSE DateOfCount[DivideMs[d], negative]
DateOfValue[x \in CanonicalNumber, negative \in BOOLEAN] ==
  IF x.kind = "infinite" THEN None
  ELSE IF x.kind = "zero" THEN Some([kind |-> "utc", at |-> <<EpochDay, 0, 0>>])
  ELSE IF x.point > 16 THEN None
  ELSE DateOfInteger[IntegerPart(x.digits, x.point), negative]
DateOfNumber[lit \in NumberLiteral] == DateOfValue[ToNumber[lit], lit[1] = "-"]

\* what new Date(v) reads for a truthy JavaScript value v: [kind, s], a text
\* to parse (an array or an object is converted to a primitive, its text),
\* the text of a number of milliseconds (true is 1); "throws" when the
\* conversion of v to a primitive throws
NewDateInput(v, str) ==
  CASE v.t = "string" -> [kind |-> "text", s |-> v.s]
    [] v.t = "number" -> [kind |-> "epoch", s |-> v.s]
    [] v.t = "boolean" -> [kind |-> "epoch", s |-> <<"1">>]
    [] v.t \in {"array", "object"} ->
         IF str.threw THEN [kind |-> "throws", s |-> <<>>]
         ELSE [kind |-> "text", s |-> str.s]
    [] OTHER -> [kind |-> "none", s |-> <<>>]

\* ts.replace(/(\d{2})\/([A-Z][a-z]{2})\/(\d{4}):/, "$3-$2-$1 ")
IsApacheDateAt(s, p) ==
  /\ HasShape(s, p, <<"d","d","/">>)
  /\ p + 11 <= Len(s)
  /\ s[p + 3] \in UpperSet /\ s[p + 4] \in LowerSet /\ s[p + 5] \in LowerSet
  /\ HasShape(s, p + 6, <<"/","d","d","d","d",":">>)
ApacheReorder(s) ==
  IF \E p \in 1..Len(s) : IsApacheDateAt(s, p)
  THEN LET p == CHOOSE q \in 1..Len(s) :
                  IsApacheDateAt(s, q) /\ \A r \in 1..(q - 1) : ~IsApacheDateAt(s, r)
       IN SubSeq(s, 1, p - 1) \o SubSeq(s, p + 7, p + 10) \o <<"-">>
          \o SubSeq(s, p + 3, p + 5) \o <<"-">> \o SubSeq(s, p, p + 1) \o <<" ">>
          \o From(s, p + 12)
  ELSE s

\* the five interpretation strategies of parseTimestamp, in their order, as
\* what each hands to new Date, str being String(v): "throws" where the
\* strategy throws (the text of v cannot be taken; ts.replace is not a
\* function when v is no string), "none" where it returns null
FormatInputOf(k, v, clock, str) ==
  CASE k \in {1, 2} -> NewDateInput(v, str)
    [] k = 3 -> IF str.threw THEN [kind |-> "throws", s |-> <<>>]
                ELSE [kind |-> "text", s |-> clock.year \o <<" ">> \o str.s]
    [] k = 4 -> IF v.t # "string" THEN [kind |-> "throws", s |-> <<>>]
                ELSE [kind |-> "text", s |-> ApacheReorder(v.s)]
    [] k = 5 -> IF str.threw THEN [kind |-> "throws", s |-> <<>>]
                ELSE IF ~HasShape(str.s, 1, <<"d","d",":","d","d",":","d","d">>)
                THEN [kind |-> "none", s |-> <<>>]
                ELSE [kind |-> "text", s |-> clock.today \o <<"T">> \o str.s]
FormatInput(k, v, clock) == FormatInputOf(k, v, clock, String(v))

\* new Date(...) of a strategy: Some(date), or None for an Invalid Date,
\* and None too for a strategy that returns null or whose exception the
\* loop catches
DateOf(input, tz) ==
  CASE input.kind = "text" -> DateParse(input.s, tz)
    [] input.kind = "epoch" -> IF IsInfinite(input.s) THEN None ELSE DateOfNumber[input.s]
    [] OTHER -> None

Format(k, v, clock) == DateOf(FormatInput(k, v, clock), clock.zone)

NumFormats == 5

\* a if it is a value, else b
OrElse(a, b) == IF IsSome(a) THEN a ELSE b

RECURSIVE LastFormatFrom(_, _, _)
\* a loop that runs through all the strategies from k on and keeps the date
\* of the last one that gives a valid date
LastFormatFrom(k, v, clock) ==
  IF k > NumFormats THEN None
  ELSE OrElse(LastFormatFrom(k + 1, v, clock), Format(k, v, clock))

RECURSIVE FormatsFrom(_, _, _)
\* the loop over the strategies from strategy k on: the first valid date
FormatsFrom(k, v, clock) ==
  IF k > NumFormats THEN None
  ELSE OrElse(Format(k, v, clock), FormatsFrom(k + 1, v, clock))

parseTimestamp(v, clock) ==
  IF ~Truthy(v) THEN None ELSE FormatsFrom(1, v, clock)

(***************************************************************************)
(* detectLogLevel: the level heuristic scanner.                            *)
(***************************************************************************)
\* the scan order of detectLogLevel (and the vocabulary of coerceLevel)
levels == <<<<"F","A","T","A","L">>, <<"E","R","R","O","R">>, <<"W","A","R","N">>, <<"I","N","F","O">>, <<"D","E","B","U","G">>, <<"T","R","A","C","E">>>>

RECURSIVE LevelsFrom(_, _)
\* the loop over levels from level k on: the first level the text includes
LevelsFrom(k, upperText) ==
  IF k > Len(levels) THEN None
  ELSE IF includes(upperText, levels[k]) THEN Some(levels[k])
  ELSE LevelsFrom(k + 1, upperText)

\* a scan of the text as it is written, without the upper-casing
CaseSensitiveLevel(text) == LevelsFrom(1, text)

\* detectLogLevel(text): the first level the upper-cased text includes
detectLogLevel(text) == LevelsFrom(1, toUpperCase(text))

(***************************************************************************)
(* LOG_PATTERNS: the regular expressions of the registry, each matched the *)
(* way a backtracking matcher does.  A match operator returns [ok, m]: m   *)
(* is the tuple of the captured groups 1, 2, ... of the expression.        *)
(***************************************************************************)
NoMatch == [ok |-> FALSE, m |-> <<>>]
Matched(m) == [ok |-> TRUE, m |-> m]

\* (.*)$ from p: the rest of the line, which `.` must be able to match
DotRest(s, p) == AllIn(From(s, p), {c \in {s[k] : k \in 1..Len(s)} : c \notin LineTerminators})

\* \s*\[?([A-Z]+)\]?\s*(.*)$ from q, after the timestamp of "ISO with level"
IsoTail(s, q) ==
  LET w == RunEnd(s, q, WhiteSpace) + 1
      b == IF CharAt(s, w) = "[" THEN w + 1 ELSE w
      u == RunEnd(s, b, UpperSet)
      r == IF CharAt(s, u + 1) = "]" THEN u + 2 ELSE u + 1
      m == RunEnd(s, r, WhiteSpace) + 1
  IN IF u >= b /\ DotRest(s, m)
     THEN Matched(<<SubSeq(s, 1, q - 1), SubSeq(s, b, u), From(s, m)>>)
     ELSE NoMatch

\* a if it matched, else b
OrMatch(a, b) == IF a.ok THEN a ELSE b

\* /^(\d{4}-\d{2}-\d{2}T\d{2}:\d{2}:\d{2}(?:\.\d{3})?Z?)\s*\[?([A-Z]+)\]?\s*(.*)$/
\* The optional Z is taken first; when nothing upper-case follows it, the
\* matcher backtracks and the Z becomes the level capture.
IsoFrom(s, p) ==
  IF CharAt(s, p) = "Z" THEN OrMatch(IsoTail(s, p + 1), IsoTail(s, p))
  ELSE IsoTail(s, p)

MatchIso(s) ==
  IF ~HasShape(s, 1, <<"d","d","d","d","-","d","d","-","d","d","T","d","d",":","d","d",":","d","d">>) THEN NoMatch
  ELSE IsoFrom(s, IF HasShape(s, 20, <<".","d","d","d">>) THEN 24 ELSE 20)

\* /^(\d{4}-\d{2}-\d{2}\s+\d{2}:\d{2}:\d{2}(?:\.\d{3})?)\s+([A-Z]+)\s+(.*)$/
MatchStandard(s) ==
  IF ~HasShape(s, 1, <<"d","d","d","d","-","d","d","-","d","d">>) THEN NoMatch
  ELSE LET w1 == RunEnd(s, 11, WhiteSpace)
           t0 == w1 + 8
           t1 == IF HasShape(s, t0 + 1, <<".","d","d","d">>) THEN t0 + 4 ELSE t0
           w2 == RunEnd(s, t1 + 1, WhiteSpace)
           u == RunEnd(s, w2 + 1, UpperSet)
           w3 == RunEnd(s, u + 1, WhiteSpace)
       IN IF /\ w1 >= 11
             /\ HasShape(s, w1 + 1, <<"d","d",":","d","d",":","d","d">>)
             /\ w2 >= t1 + 1
             /\ u >= w2 + 1
             /\ w3 >= u + 1
             /\ DotRest(s, w3 + 1)
          THEN Matched(<<SubSeq(s, 1, t1), SubSeq(s, w2 + 1, u), From(s, w3 + 1)>>)
          ELSE NoMatch

\* /^([A-Z][a-z]{2}\s+\d{1,2}\s+\d{2}:\d{2}:\d{2})\s+(\w+)\s+([^:]+):\s*(.*)$/
\* ([^:]+) runs to the first colon; when the colon directly follows the white
\* space after the host, the matcher gives one white-space character back and
\* that character is the capture.
MatchSyslog(s) ==
  LET w1 == RunEnd(s, 4, WhiteSpace)
      dEnd == RunEnd(s, w1 + 1, Digits)
      w2 == RunEnd(s, dEnd + 1, WhiteSpace)
      t == w2 + 8
      w3 == RunEnd(s, t + 1, WhiteSpace)
      h == RunEnd(s, w3 + 1, WordChars)
      w4 == RunEnd(s, h + 1, WhiteSpace)
      c == RunEndNot(s, w4 + 1, {":"}) + 1
      st == IF c > w4 + 1 THEN w4 + 1 ELSE w4
      m == RunEnd(s, c + 1, WhiteSpace) + 1
  IN IF /\ Len(s) >= 3
        /\ s[1] \in UpperSet /\ s[2] \in LowerSet /\ s[3] \in LowerSet
        /\ w1 >= 4
        /\ dEnd - w1 \in 1..2
        /\ w2 >= dEnd + 1
        /\ HasShape(s, w2 + 1, <<"d","d",":","d","d",":","d","d">>)
        /\ w3 >= t + 1
        /\ h >= w3 + 1
        /\ w4 >= h + 1
        /\ CharAt(s, c) = ":"
        /\ st >= h + 2
        /\ DotRest(s, m)
     THEN Matched(<<SubSeq(s, 1, t), SubSeq(s, w3 + 1, h), SubSeq(s, st, c - 1), From(s, m)>>)
     ELSE NoMatch

\* \s+(\d+)\s+(\S+) from a, the end of the Apache expression that decides
\* the match: [ok, m] with m = <<the digits>>
ApacheTail(s, a) ==
  LET w1 == RunEnd(s, a, WhiteSpace)
      d == RunEnd(s, w1 + 1, Digits)
      w2 == RunEnd(s, d + 1, WhiteSpace)
      z == RunEndNot(s, w2 + 1, WhiteSpace)
  IN IF w1 >= a /\ d >= w1 + 1 /\ w2 >= d + 1 /\ z >= w2 + 1
     THEN Matched(<<SubSeq(s, w1 + 1, d)>>)
     ELSE NoMatch

\* "([^"]*)"?\s+(\d+)\s+(\S+) with the request text ending at k (q0 - 1 for an
\* empty request); qEnd is the end of the longest run without a quote
ApacheRequest(s, k, qEnd) ==
  IF k = qEnd /\ CharAt(s, k + 1) = "\""
  THEN OrMatch(ApacheTail(s, k + 2), ApacheTail(s, k + 1))
  ELSE ApacheTail(s, k + 1)

RECURSIVE ApacheRequestEnd(_, _, _, _)
\* ([^"]*) is greedy: the longest request text, ending at k or before and not
\* before q0 - 1, after which the rest of the expression matches; q0 - 2 when
\* there is none
ApacheRequestEnd(s, k, q0, qEnd) ==
  IF k < q0 - 1 THEN q0 - 2
  ELSE IF ApacheRequest(s, k, qEnd).ok THEN k
  ELSE ApacheRequestEnd(s, k - 1, q0, qEnd)

\* the captures of a match whose request text is q0..k
ApacheCaptures(s, t1, w3, cb, q0, k, tail) ==
  IF k < q0 - 1 THEN NoMatch
  ELSE Matched(<<SubSeq(s, 1, t1), SubSeq(s, w3 + 2, cb - 1), SubSeq(s, q0, k), tail.m[1]>>)

ApacheFromRequest(s, t1, w3, cb, q0, qEnd, k) ==
  ApacheCaptures(s, t1, w3, cb, q0, k, ApacheRequest(s, k, qEnd))

\* /^(\S+)\s+\S+\s+\S+\s+\[([^\]]+)\]\s+"([^"]*)"?\s+(\d+)\s+(\S+)(?:\s+"([^"]*)")?(?:\s+"([^"]*)")?/
MatchApache(s) ==
  LET t1 == RunEndNot(s, 1, WhiteSpace)
      w1 == RunEnd(s, t1 + 1, WhiteSpace)
      t2 == RunEndNot(s, w1 + 1, WhiteSpace)
      w2 == RunEnd(s, t2 + 1, WhiteSpace)
      t3 == RunEndNot(s, w2 + 1, WhiteSpace)
      w3 == RunEnd(s, t3 + 1, WhiteSpace)
      cb == RunEndNot(s, w3 + 2, {"]"}) + 1
      w4 == RunEnd(s, cb + 1, WhiteSpace)
      q0 == w4 + 2
      qEnd == RunEndNot(s, q0, {"\""})
  IN IF /\ t1 >= 1 /\ w1 >= t1 + 1 /\ t2 >= w1 + 1 /\ w2 >= t2 + 1
        /\ t3 >= w2 + 1 /\ w3 >= t3 + 1
        /\ CharAt(s, w3 + 1) = "["
        /\ cb >= w3 + 3 /\ CharAt(s, cb) = "]"
        /\ w4 >= cb + 1
        /\ CharAt(s, w4 + 1) = "\""
     THEN ApacheFromRequest(s, t1, w3, cb, q0, qEnd, ApacheRequestEnd(s, qEnd, q0, qEnd))
     ELSE NoMatch

\* /^(\{.*\})$/
MatchJsonFormat(s) ==
  IF Len(s) >= 2 /\ s[1] = "{" /\ s[Len(s)] = "}" /\ DotRest(s, 1)
  THEN Matched(<<s>>) ELSE NoMatch

\* /^\[(\d{2}:\d{2}:\d{2}(?:\.\d{3})?)\]\s*(.*)$/
MatchSimple(s) ==
  LET t == IF HasShape(s, 10, <<".","d","d","d">>) THEN 13 ELSE 9
      m == RunEnd(s, t + 2, WhiteSpace) + 1
  IN IF CharAt(s, 1) = "[" /\ HasShape(s, 2, <<"d","d",":","d","d",":","d","d">>) /\ CharAt(s, t + 1) = "]"
        /\ DotRest(s, m)
     THEN Matched(<<SubSeq(s, 2, t), From(s, m)>>)
     ELSE NoMatch

\* the registry, in its order; a group number 0 is a group the entry's
\* `groups` does not name
LOG_PATTERNS == <<
  [name |-> "ISO with level",   timestamp |-> 1, level |-> 2, message |-> 3, source |-> 0, thread |-> 0],
  [name |-> "Standard format",  timestamp |-> 1, level |-> 2, message |-> 3, source |-> 0, thread |-> 0],
  [name |-> "Syslog format",    timestamp |-> 1, level |-> 0, message |-> 4, source |-> 2, thread |-> 3],
  [name |-> "Apache access",    timestamp |-> 2, level |-> 4, message |-> 3, source |-> 1, thread |-> 0],
  [name |-> "JSON format",      timestamp |-> 0, level |-> 0, message |-> 1, source |-> 0, thread |-> 0],
  [name |-> "Simple timestamp", timestamp |-> 1, level |-> 0, message |-> 2, source |-> 0, thread |-> 0] >>

\* line.match(LOG_PATTERNS[k].regex)
Match(k, line) ==
  CASE k = 1 -> MatchIso(line)
    [] k = 2 -> MatchStandard(line)
    [] k = 3 -> MatchSyslog(line)
    [] k = 4 -> MatchApache(line)
    [] k = 5 -> MatchJsonFormat(line)
    [] k = 6 -> MatchSimple(line)

RECURSIVE PatternsFrom(_, _)
\* the loop over the registry from pattern k on: the first pattern that
\* matches the line, 0 when none does
PatternsFrom(k, line) ==
  IF k > Len(LOG_PATTERNS) THEN 0
  ELSE IF Match(k, line).ok THEN k
  ELSE PatternsFrom(k + 1, line)

FirstPattern(line) == PatternsFrom(1, line)

(***************************************************************************)
(* LogEntry and the JSON interpreters.  A LogEntry is a record [id,        *)
(* timestamp, level, message, rawLine, lineNumber, source, thread,         *)
(* metadata]; timestamp, level, source, thread and metadata are optional.  *)
(***************************************************************************)
\* `line-${lineNumber}`
LineId(lineNumber) == <<"line-", lineNumber>>

RECURSIVE pickFrom(_, _, _)
pickFrom(obj, keys, k) ==
  IF k > Len(keys) THEN JsUndefined
  ELSE IF NotNullish(Get(obj, keys[k])) THEN Get(obj, keys[k])
  ELSE pickFrom(obj, keys, k + 1)

\* the first value among obj[keys[1]], obj[keys[2]], ... that is neither
\* undefined nor null; undefined when there is none
pick(obj, keys) == pickFrom(obj, keys, 1)

RECURSIVE OrChainFrom(_, _, _)
OrChainFrom(obj, keys, k) ==
  IF k >= Len(keys) \/ Truthy(Get(obj, keys[k])) THEN Get(obj, keys[k])
  ELSE OrChainFrom(obj, keys, k + 1)

\* obj[keys[1]] || obj[keys[2]] || ...: the first truthy value, else the last
OrChain(obj, keys) == OrChainFrom(obj, keys, 1)

TimestampKeys == <<<<"t","i","m","e","s","t","a","m","p">>, <<"@","t","i","m","e","s","t","a","m","p">>, <<"t","i","m","e">>, <<"t","s">>>>
SourceKeys == <<<<"s","o","u","r","c","e">>, <<"l","o","g","g","e","r">>, <<"m","o","d","u","l","e">>, <<"s","e","r","v","i","c","e">>>>
ThreadKeys == <<<<"t","h","r","e","a","d">>, <<"p","r","o","c","e","s","s">>, <<"c","o","r","r","e","l","a","t","i","o","n","I","d">>>>
ModuleKeys == <<<<"m","o","d","u","l","e">>, <<"s","e","r","v","i","c","e">>, <<"s","o","u","r","c","e">>, <<"l","o","g","g","e","r">>>>
FeatureKeys == <<<<"f","e","a","t","u","r","e">>, <<"a","c","t","i","o","n">>, <<"e","v","e","n","t">>, <<"e","n","d","p","o","i","n","t">>>>
TypeKeys == <<<<"t","y","p","e">>, <<"c","a","t","e","g","o","r","y">>>>
StatusKeys == <<<<"s","t","a","t","u","s">>, <<"s","t","a","t","u","s","C","o","d","e">>, <<"c","o","d","e">>>>
MessageKeys == <<<<"m","e","s","s","a","g","e">>, <<"m","s","g">>, <<"t","e","x","t">>>>
BackfillLevelKeys == <<<<"l","e","v","e","l">>, <<"s","e","v","e","r","i","t","y">>, <<"l","v","l">>>>

Bullet == <<" ", "U+2022", " ">>
Dash == <<" ", "U+2014", " ">>
LogEntryText == <<"L","o","g"," ","e","n","t","r","y">>

\* parts.filter(Boolean): the non-empty strings of parts
RECURSIVE FilterNonEmpty(_)
FilterNonEmpty(parts) ==
  IF Len(parts) = 0 THEN <<>>
  ELSE (IF Len(Head(parts)) > 0 THEN <<Head(parts)>> ELSE <<>>)
       \o FilterNonEmpty(Tail(parts))

\* the strings pushed for the picks `vals`, in order: String(v) for each truthy
\* pick that `keep` does not suppress
RECURSIVE Pushed(_, _)
Pushed(vals, keep) ==
  IF Len(vals) = 0 THEN <<>>
  ELSE (IF Truthy(Head(vals)) /\ Head(keep) THEN <<String(Head(vals)).s>> ELSE <<>>)
       \o Pushed(Tail(vals), Tail(keep))

\* String(v) throws for a truthy v among vals
AnyThrows(vals) == \E k \in 1..Len(vals) : Truthy(vals[k]) /\ String(vals[k]).threw

\* type && (!msg || String(type).toLowerCase() !== String(msg).toLowerCase())
\* without the test of type itself, which Pushed makes
KeepType(type, msg) ==
  ~Truthy(msg) \/ toLowerCase(String(type).s) # toLowerCase(String(msg).s)

\* the return of buildSummary for the joined head and the message pick
SummaryText(head, msg) ==
  IF Truthy(msg) /\ Len(head) > 0 THEN Ok(head \o Dash \o String(msg).s)
  ELSE IF Len(head) > 0 THEN Ok(head)
  ELSE IF Truthy(msg) THEN Ok(String(msg).s)
  ELSE Ok(LogEntryText)

SummaryOf(moduleName, feature, type, status, msg) ==
  IF AnyThrows(<<moduleName, feature, type, status, msg>>) THEN Threw
  ELSE SummaryText(join(FilterNonEmpty(Pushed(<<moduleName, feature, type, status>>,
                                              <<TRUE, TRUE, KeepType(type, msg), TRUE>>)),
                        Bullet),
                   msg)

\* buildSummary of parseJsonLog: [threw, s]
buildSummary(obj) ==
  SummaryOf(pick(obj, ModuleKeys), pick(obj, FeatureKeys), pick(obj, TypeKeys),
            pick(obj, StatusKeys), pick(obj, MessageKeys))

\* lv?.toUpperCase() for lv = json.level: [threw, level]; a level that is
\* neither a string nor missing has no toUpperCase method, and the call throws
UpperLevel(lv) ==
  CASE ~NotNullish(lv) -> [threw |-> FALSE, level |-> None]
    [] lv.t = "string" -> [threw |-> FALSE, level |-> Some(toUpperCase(lv.s))]
    [] OTHER -> [threw |-> TRUE, level |-> None]

JsonLevel(json) == UpperLevel(Get(json, <<"l","e","v","e","l">>))

\* typeof v === "string" ? v : undefined
StringOnly(v) == IF v.t = "string" THEN Some(v.s) ELSE None

\* typeof (a || b || ...) === "string" ? a || b || ... : undefined
StringOrChain(json, keys) == StringOnly(OrChain(json, keys))

\* an entry whose metadata is the object with the summary stored in it as
\* its "message"
SummarisedJsonEntry(line, lineNumber, clock, json, timestamp, summaryMessage, level) ==
  IF summaryMessage.threw \/ level.threw THEN None
  ELSE Some([id |-> LineId(lineNumber),
             timestamp |-> IF Truthy(timestamp) THEN parseTimestamp(timestamp, clock)
                           ELSE None,
             level |-> level.level,
             message |-> IF Len(summaryMessage.s) > 0 THEN summaryMessage.s
                         ELSE LogEntryText,
             rawLine |-> line,
             lineNumber |-> lineNumber,
             source |-> StringOrChain(json, SourceKeys),
             thread |-> StringOrChain(json, ThreadKeys),
             metadata |-> Some(JsObj(ObjPut(json.kv, <<"m","e","s","s","a","g","e">>,
                                            JsStr(summaryMessage.s))))])

\* the object parseJsonLog returns
JsonEntry(line, lineNumber, clock, json, timestamp, summaryMessage, level) ==
  IF summaryMessage.threw \/ level.threw THEN None
  ELSE Some([id |-> LineId(lineNumber),
             timestamp |-> IF Truthy(timestamp) THEN parseTimestamp(timestamp, clock)
                           ELSE None,
             level |-> level.level,
             message |-> IF Len(summaryMessage.s) > 0 THEN summaryMessage.s
                         ELSE LogEntryText,
             rawLine |-> line,
             lineNumber |-> lineNumber,
             source |-> StringOrChain(json, SourceKeys),
             thread |-> StringOrChain(json, ThreadKeys),
             metadata |-> Some(json)])

\* parseJsonLog after JSON.parse: a property read of null throws
ParsedJsonLog(line, lineNumber, clock, parsed) ==
  IF ~parsed.ok \/ parsed.v.t = "null" THEN None
  ELSE JsonEntry(line, lineNumber, clock, parsed.v, OrChain(parsed.v, TimestampKeys),
                 buildSummary(parsed.v), JsonLevel(parsed.v))

\* parseJsonLog: Some(entry), or None where it returns null (JSON.parse or
\* anything after it threw)
parseJsonLog(line, lineNumber, clock) ==
  ParsedJsonLog(line, lineNumber, clock, JSONparse(line))

(***************************************************************************)
(* extractFirstJsonObject: the balanced-brace scan.                        *)
(***************************************************************************)
\* the end of a string literal as the first quote from i on, a quote after a
\* backslash included
StringEndNoEscape(text, i) == NextIn(text, i, {"\""})

RECURSIVE StringEnd(_, _)
\* the iterations of the loop with inString set, from position i: the
\* position of the quote that ends the string, past the end of the text when
\* none does.  A character after a backslash is passed with it (escape), and
\* the characters that change no flag are passed in one step.
StringEnd(text, i) ==
  IF NextIn(text, i, {"\\", "\""}) > Len(text) THEN Len(text) + 1
  ELSE IF text[NextIn(text, i, {"\\", "\""})] = "\"" THEN NextIn(text, i, {"\\", "\""})
  ELSE StringEnd(text, NextIn(text, i, {"\\", "\""}) + 2)

RECURSIVE ScanBalanced(_, _, _)
\* the loop of extractFirstJsonObject from position i outside a string: the
\* position of the "}" at which depth returns to zero, 0 when the text ends
\* first.  The characters that change neither flag nor depth are passed in
\* one step.
ScanBalanced(text, i, depth) ==
  IF i > Len(text) THEN 0
  ELSE CASE text[i] = "\"" -> ScanBalanced(text, StringEnd(text, i + 1) + 1, depth)
         [] text[i] = "{" -> ScanBalanced(text, i + 1, depth + 1)
         [] text[i] = "}" /\ depth - 1 = 0 -> i
         [] text[i] = "}" /\ depth - 1 # 0 -> ScanBalanced(text, i + 1, depth - 1)
         [] OTHER -> ScanBalanced(text, NextIn(text, i, {"\"", "{", "}"}), depth)

NotExtracted == [found |-> FALSE, json |-> JsUndefined, start |-> 0, end |-> 0]

\* JSON.parse(candidate) for the candidate text[startIdx..endIdx]
Candidate(startIdx, endIdx, parsed) ==
  IF ~parsed.ok THEN NotExtracted
  ELSE [found |-> TRUE, json |-> parsed.v, start |-> startIdx, end |-> endIdx]

ExtractTo(text, startIdx, endIdx) ==
  IF endIdx = 0 THEN NotExtracted
  ELSE Candidate(startIdx, endIdx, JSONparse(SubSeq(text, startIdx, endIdx)))

RECURSIVE ExtractRetrying(_, _)
\* an extraction that, where the span from startIdx is unbalanced or is not
\* JSON, goes on to the next "{" of the text
ExtractRetrying(text, startIdx) ==
  IF startIdx = 0 \/ startIdx > Len(text) THEN NotExtracted
  ELSE IF ExtractTo(text, startIdx, ScanBalanced(text, startIdx, 0)).found
    THEN ExtractTo(text, startIdx, ScanBalanced(text, startIdx, 0))
  ELSE ExtractRetrying(text, NextIn(text, startIdx + 1, {"{"}))

ExtractFrom(text, startIdx) ==
  IF startIdx = 0 THEN NotExtracted
  ELSE ExtractTo(text, startIdx, ScanBalanced(text, startIdx, 0))

\* extractFirstJsonObject(text): [found, json, start, end], positions 1-based
extractFirstJsonObject(text) == ExtractFrom(text, indexOf(text, "{"))

\* allowed.includes(s) ? s : undefined
Allowed(s) == IF \E k \in 1..Len(levels) : levels[k] = s THEN Some(s) ELSE None

\* String(val).toUpperCase() and the test against the allowed levels
CoerceString(str) ==
  IF str.threw THEN [threw |-> TRUE, level |-> None]
  ELSE [threw |-> FALSE, level |-> Allowed(toUpperCase(str.s))]

\* coerceLevel(val): [threw, level]
coerceLevel(val) ==
  IF ~Truthy(val) THEN [threw |-> FALSE, level |-> None]
  ELSE CoerceString(String(val))

(***************************************************************************)
(* The body of the loop of parseLogFile, as functions of one trimmed line. *)
(***************************************************************************)
\* the entry of a match whose level is the scanner's when the scanner finds
\* one, and the captured token only otherwise
ScannedMatchEntry(groups, match, line, lineNumber, clock) ==
  [id |-> LineId(lineNumber),
   timestamp |-> IF groups.timestamp # 0
                 THEN parseTimestamp(JsStr(match[groups.timestamp]), clock)
                 ELSE None,
   level |-> IF groups.level # 0 /\ IsNone(detectLogLevel(line))
             THEN Some(toUpperCase(match[groups.level]))
             ELSE detectLogLevel(line),
   message |-> IF groups.message # 0 THEN match[groups.message] ELSE line,
   rawLine |-> line,
   lineNumber |-> lineNumber,
   source |-> IF groups.source # 0 THEN Some(match[groups.source]) ELSE None,
   thread |-> IF groups.thread # 0 THEN Some(match[groups.thread]) ELSE None,
   metadata |-> None]

\* the entry built from the captures `match` of a pattern with group
\* indices `groups`
MatchEntry(groups, match, line, lineNumber, clock) ==
  [id |-> LineId(lineNumber),
   timestamp |-> IF groups.timestamp # 0
                 THEN parseTimestamp(JsStr(match[groups.timestamp]), clock)
                 ELSE None,
   level |-> IF groups.level # 0 THEN Some(toUpperCase(match[groups.level]))
             ELSE detectLogLevel(line),
   message |-> IF groups.message # 0 THEN match[groups.message] ELSE line,
   rawLine |-> line,
   lineNumber |-> lineNumber,
   source |-> IF groups.source # 0 THEN Some(match[groups.source]) ELSE None,
   thread |-> IF groups.thread # 0 THEN Some(match[groups.thread]) ELSE None,
   metadata |-> None]

\* the entry e with its message capture stored as rawLine
MessageAsRaw(e) == [e EXCEPT !.rawLine = e.message]

\* a pattern entry that keeps the message capture, not the line, as rawLine
MessageRawEntry(k, line, lineNumber, clock) ==
  MessageAsRaw(MatchEntry(LOG_PATTERNS[k], Match(k, line).m, line, lineNumber, clock))

\* the entry the registry pattern k builds from its match of the line
PatternEntry(k, line, lineNumber, clock) ==
  MatchEntry(LOG_PATTERNS[k], Match(k, line).m, line, lineNumber, clock)

\* a plain-text entry without a level, the level left to the backfill
LevelLessPlainEntry(line, lineNumber) ==
  [id |-> LineId(lineNumber),
   timestamp |-> None,
   level |-> None,
   message |-> line,
   rawLine |-> line,
   lineNumber |-> lineNumber,
   source |-> None,
   thread |-> None,
   metadata |-> None]

\* the plain-text fallback
PlainEntry(line, lineNumber) ==
  [id |-> LineId(lineNumber),
   timestamp |-> None,
   level |-> detectLogLevel(line),
   message |-> line,
   rawLine |-> line,
   lineNumber |-> lineNumber,
   source |-> None,
   thread |-> None,
   metadata |-> None]

\* the pattern loop and the fallback, k the first matching pattern or 0
ClassifyByPattern(line, lineNumber, clock, k) ==
  IF k # 0
  THEN [entry |-> PatternEntry(k, line, lineNumber, clock),
        format |-> LOG_PATTERNS[k].name, path |-> "pattern"]
  ELSE [entry |-> PlainEntry(line, lineNumber), format |-> "Plain text", path |-> "plain"]

\* if (entry) detectedFormat = "JSON format", else the pattern loop
ClassifyAfterJson(line, lineNumber, clock, parsed) ==
  IF IsSome(parsed)
  THEN [entry |-> Val(parsed), format |-> "JSON format", path |-> "json"]
  ELSE ClassifyByPattern(line, lineNumber, clock, FirstPattern(line))

\* the classification of a trimmed, non-empty line: [entry, format, path],
\* path the branch that built the entry
Classify(line, lineNumber, clock) ==
  ClassifyAfterJson(line, lineNumber, clock,
                    IF startsWith(line, <<"{">>) THEN parseJsonLog(line, lineNumber, clock)
                    ELSE None)

\* !entry.level, !entry.source, !entry.thread: the field is undefined or ""
Unset(o) == IsNone(o) \/ Len(Val(o)) = 0

\* a backfill that stamps an entry whose object holds no timestamp with
\* the date of the parse
TimestampOrToday(current, ts, clock) ==
  IF ts.t \in {"string", "number"} THEN parseTimestamp(JsStr(String(ts).s), clock)
  ELSE DateParse(clock.today, clock.zone)

\* if (typeof ts === "string" || typeof ts === "number") parseTimestamp(String(ts))
TimestampFrom(current, ts, clock) ==
  IF ts.t \in {"string", "number"} THEN parseTimestamp(JsStr(String(ts).s), clock)
  ELSE current

BackfillTimestamp(entry, json, clock) ==
  IF IsNone(entry.timestamp)
  THEN TimestampFrom(entry.timestamp, pick(json, TimestampKeys), clock)
  ELSE entry.timestamp

\* if (lvl) entry.level = lvl
LevelFrom(current, lvl) ==
  IF lvl.threw THEN [threw |-> TRUE, level |-> current]
  ELSE [threw |-> FALSE, level |-> IF IsSome(lvl.level) THEN lvl.level ELSE current]

\* a backfill of the level without the test that the level is missing
OverwriteLevel(entry, json) ==
  LevelFrom(entry.level, coerceLevel(pick(json, BackfillLevelKeys)))

\* [threw, level]
BackfillLevel(entry, json) ==
  IF Unset(entry.level)
  THEN LevelFrom(entry.level, coerceLevel(pick(json, BackfillLevelKeys)))
  ELSE [threw |-> FALSE, level |-> entry.level]

\* if (typeof v === "string") field = v
StringFrom(current, v) == IF v.t = "string" THEN Some(v.s) ELSE current

BackfillSource(entry, json) ==
  IF Unset(entry.source) THEN StringFrom(entry.source, pick(json, SourceKeys))
  ELSE entry.source

BackfillThread(entry, json) ==
  IF Unset(entry.thread) THEN StringFrom(entry.thread, pick(json, ThreadKeys))
  ELSE entry.thread

\* the return of derived for the joined head and the summary
DerivedText(head, summary) ==
  IF Len(summary) > 0 /\ Len(head) > 0 THEN Ok(head \o Dash \o summary)
  ELSE IF Len(head) > 0 THEN Ok(head)
  ELSE Ok(summary)

\* type && (!summary || String(type).toLowerCase() !== String(summary).toLowerCase())
\* without the test of type itself, which Pushed makes
KeepDerivedType(type, summary) ==
  Len(summary) = 0 \/ toLowerCase(String(type).s) # toLowerCase(summary)

DerivedHead(moduleName, feature, type, status, summary) ==
  join(FilterNonEmpty(Pushed(<<moduleName, feature, type, status>>,
                             <<TRUE, TRUE, KeepDerivedType(type, summary), TRUE>>)),
       Bullet)

DerivedOf(messageVal, moduleName, feature, type, status, summary) ==
  IF AnyThrows(<<messageVal, moduleName, feature, type, status>>) THEN Threw
  ELSE DerivedText(DerivedHead(moduleName, feature, type, status, summary), summary)

DerivedFrom(messageVal, moduleName, feature, type, status) ==
  DerivedOf(messageVal, moduleName, feature, type, status,
            IF Truthy(messageVal) THEN String(messageVal).s ELSE <<>>)

\* the derived message of the embedded path: [threw, s]; s is empty where the
\* code's value is undefined or ""
derived(json) ==
  DerivedFrom(pick(json, MessageKeys), pick(json, ModuleKeys), pick(json, FeatureKeys),
              pick(json, TypeKeys), pick(json, StatusKeys))

\* before || after || "Log entry"
FirstNonEmpty(before, after) ==
  IF Len(before) > 0 THEN before
  ELSE IF Len(after) > 0 THEN after
  ELSE LogEntryText

\* the message of an enriched entry: the derived message, else the text
\* before or after the JSON span, else "Log entry"
EnrichedMessage(message, extracted, d) ==
  IF Len(d) > 0 THEN d
  ELSE FirstNonEmpty(trim(SubSeq(message, 1, extracted.start - 1)),
                     trim(From(message, extracted.end + 1)))

\* the entry after the backfill and the derived message
Enriched(entry, clock, extracted, lvl, d) ==
  IF lvl.threw \/ d.threw THEN [threw |-> TRUE, entry |-> entry]
  ELSE [threw |-> FALSE,
        entry |-> [entry EXCEPT
                     !.metadata = Some(extracted.json),
                     !.timestamp = BackfillTimestamp(entry, extracted.json, clock),
                     !.level = lvl.level,
                     !.source = BackfillSource(entry, extracted.json),
                     !.thread = BackfillThread(entry, extracted.json),
                     !.message = EnrichedMessage(entry.message, extracted, d.s)]]

\* if (extracted) { ... }
EnrichWith(entry, clock, extracted) ==
  IF ~extracted.found THEN [threw |-> FALSE, entry |-> entry]
  ELSE Enriched(entry, clock, extracted, BackfillLevel(entry, extracted.json),
                derived(extracted.json))

\* the embedded-JSON enrichment of a classified entry: [threw, entry]
Enrich(entry, clock) ==
  IF IsSome(entry.metadata) THEN [threw |-> FALSE, entry |-> entry]
  ELSE EnrichWith(entry, clock, extractFirstJsonObject(entry.message))

(***************************************************************************)
(* The inputs.  A file is at most MaxLines lines joined by "\n".  One line *)
(* of the file, the focus, is any line of Lines: a prefix that gives the   *)
(* line its shape, free text, an embedded JSON text and a suffix.  The     *)
(* other lines are drawn from the smaller set Fillers.                     *)
(***************************************************************************)
MaxLines == 2

Prefixes == {
  <<>>,
  <<"2","0","2","4","-","0","1","-","1","5","T","1","0",":","3","0",":","4","5",".","1","2","3","Z"," ","[","I","N","F","O","]"," ">>,
  <<"2","0","2","4","-","0","1","-","1","5","T","1","0",":","3","0",":","4","5","Z"," ">>,
  <<"2","0","2","4","-","0","1","-","1","5","T","1","0",":","3","0",":","4","5"," ","N","O","T","I","C","E"," ">>,
  <<"2","0","2","4","-","0","1","-","1","5"," ","1","0",":","3","0",":","4","5",".","1","2","3"," ","W","A","R","N"," ">>,
  <<"2","0","2","4","-","1","3","-","4","5"," ","9","9",":","9","9",":","9","9"," ","E","R","R","O","R"," ">>,
  <<"J","a","n"," ","1","5"," ","1","0",":","3","1",":","0","4"," ","s","e","r","v","e","r"," ","m","y","a","p","p","[","1","2","3","4","]",":"," ">>,
  <<"1",".","2",".","3",".","4"," ","-"," ","-"," ","[","1","5","/","J","a","n","/","2","0","2","4",":","1","0",":","3","0",":","4","5"," ","+","0","0","0","0","]"," ","\"","G","E","T"," ","/","x","\""," ","2","0","0"," ","5","1","2"," ">>,
  <<"[","1","0",":","3","0",":","4","5","]"," ">> }

Bodies == {
  <<>>,
  <<"o","r","d","e","r"," ","p","r","o","c","e","s","s","e","d"," ","w","a","r","n"," ","r","e","t","r","y","i","n","g"," ">> }

JsonTexts == {
  <<>>,
  <<"{","\"","l","e","v","e","l","\"",":","\"","e","r","r","o","r","\"",",","\"","m","o","d","u","l","e","\"",":","\"","a","u","t","h","\"","}">>,
  <<"{","\"","l","e","v","e","l","\"",":","\"","i","n","f","o","\"",",","\"","@","t","i","m","e","s","t","a","m","p","\"",":","\"","2","0","2","5","-","0","9","-","1","4","T","0","0",":","0","8",":","5","2",".","8","3","9","Z","\"",",","\"","m","o","d","u","l","e","\"",":","\"","w","e","b","\"",",","\"","f","e","a","t","u","r","e","\"",":","\"","a","p","p","\"",",","\"","m","e","s","s","a","g","e","\"",":","\"","A","p","p"," ","i","s"," ","l","a","u","n","c","h","i","n","g","\"","}">>,
  <<"{","\"","l","e","v","e","l","\"",":","5","}">>,
  <<"{","\"","m","o","d","u","l","e","\"",":","{","\"","t","o","S","t","r","i","n","g","\"",":","1","}","}">>,
  <<"{","\"","l","e","v","e","l","\"",":","\"","n","o","t","i","c","e","\"","}">>,
  <<"{","}">>,
  <<"{","\"","a","\"",":">>,
  <<"{","b","a","d","}">>,
  <<"{","\"","m","s","g","\"",":","\"","a","}","b","\"",",","\"","s","o","u","r","c","e","\"",":","\"","d","b","\"",",","\"","t","h","r","e","a","d","\"",":","\"","t","1","\"",",","\"","t","s","\"",":","1","7","0","0","0","0","0","0","0","0","0","0","0","}">>,
  <<"{","\"","t","y","p","e","\"",":","\"","e","r","r","o","r","\"",",","\"","m","e","s","s","a","g","e","\"",":","\"","E","r","r","o","r","\"",",","\"","s","t","a","t","u","s","\"",":","0","}">>,
  <<"{","\"","s","e","v","e","r","i","t","y","\"",":","\"","f","a","t","a","l","\"",",","\"","t","i","m","e","s","t","a","m","p","\"",":","\"","s","o","o","n","\"",",","\"","t","i","m","e","\"",":","\"","2","0","2","4","-","0","2","-","0","3","T","0","4",":","0","5",":","0","6","\"","}">> }

\* lines whose case is their white space, an empty capture or a line that
\* only looks like a shape
SpecialLines == {
  <<>>,
  <<" "," ">>,
  <<"\t","\r">>,
  <<" "," ","a","t"," ","h","a","n","d","l","e","r"," ","(","a","p","p",".","j","s",")">>,
  <<"h","e","l","l","o"," ","w","o","r","l","d","\r">>,
  <<" ","{","\"","l","e","v","e","l","\"",":","\"","d","e","b","u","g","\"",",","\"","m","s","g","\"",":","\"","x","\"","}"," ">>,
  <<"2","0","2","4","-","0","1","-","1","5","T","1","0",":","3","0",":","4","5","Z"," ","I","N","F","O">>,
  <<"[","1","0",":","3","0",":","4","5","]">>,
  <<"J","a","n"," ","1","5"," ","1","0",":","3","1",":","0","4"," ","s","e","r","v","e","r"," "," ",":"," ","u","p">>,
  <<"1",".","2",".","3",".","4"," ","-"," ","-"," ","[","1","5","/","J","a","n","/","2","0","2","4",":","1","0",":","3","0",":","4","5"," ","+","0","0","0","0","]"," ","\"","\""," ","4","0","4"," ","-">>,
  <<"2","0","2","4","-","0","1","-","1","5"," ","1","0",":","3","0",":","4","5"," ","I","N","F","O">>,
  <<"a","\r","b"," ","t","r","a","c","e">>,
  <<"{","\"","m","e","s","s","a","g","e","\"",":","0","}">>,
  <<"{","\"","m","o","d","u","l","e","\"",":","\"","a","\"",",","\"","m","e","s","s","a","g","e","\"",":","[","]","}">>,
  <<"x"," ","{","b","a","d","}"," ","{","\"","l","e","v","e","l","\"",":","\"","i","n","f","o","\"","}">>,
  <<"x"," ","{","\"","m","\"",":","\"","a","\\","\"","}","\"",",","\"","k","\"",":","{","\"","z","\"",":","1","}","}"," ","t","a","i","l"," ","}">>,
  <<"U","n","h","a","n","d","l","e","d"," ","e","x","c","e","p","t","i","o","n"," ","{","\"","l","e","v","e","l","\"",":","\"","e","r","r","o","r","\"",",","\"","m","o","d","u","l","e","\"",":","\"","a","u","t","h","\"","}">>,
  <<"x"," ","{","\"","t","s","\"",":","\"","\"","}">>,
  <<"{","\"","t","s","\"",":","[","\"","1","0",":","3","0",":","4","5"," ","x","\"","]","}">> }

Lines ==
  {p \o b \o j : p \in Prefixes, b \in Bodies, j \in JsonTexts} \cup SpecialLines

Fillers == {
  <<>>,
  <<"p","l","a","i","n"," ","t","e","x","t">>,
  <<"[","1","0",":","3","0",":","4","5","]">> }

\* the offsets of local time, in hours, of the machines the program runs on
TimeZones == {0, 0 - 5, 2}

\* what a parse reads of its machine: the current year and the current ISO
\* date of the clock, and the offset of local time, in hours ahead of UTC
Clocks ==
  [year : {<<"2","0","2","6">>}, today : {<<"2","0","2","6","-","1","0","-","3","0">>},
   zone : TimeZones]
  \cup [year : {<<"2","0","2","7">>}, today : {<<"2","0","2","7","-","0","1","-","0","2">>},
        zone : TimeZones]

\* the clocks of a machine in the zone, one per time of the parse
ClocksAt(zone) == {c \in Clocks : c.zone = zone}

RECURSIVE FillerText(_)
\* the texts of k filler lines, k >= 1
FillerText(k) ==
  IF k = 1 THEN Fillers
  ELSE {f \o <<"\n">> \o t : f \in Fillers, t \in FillerText(k - 1)}

\* the texts of k filler lines before the focus, each ended by "\n", and
\* after it, each begun by "\n"; the empty text for k = 0
Before(k) == IF k = 0 THEN {<<>>} ELSE {t \o <<"\n">> : t \in FillerText(k)}
After(k) == IF k = 0 THEN {<<>>} ELSE {<<"\n">> \o t : t \in FillerText(k)}

\* the files of n lines whose focus is line f
FilesOf(n, f) ==
  {a \o l \o b : a \in Before(f - 1), l \in Lines, b \in After(n - f)}

Contents == UNION {FilesOf(n, f) : <<n, f>> \in {nf \in (1..MaxLines) \X (1..MaxLines) : nf[2] <= nf[1]}}

(***************************************************************************)
(* parseLogFile as a state machine: one step per statement group of the    *)
(* loop.  pc is the position: "start" before the split, "loop" at the loop *)
(* head with i lines consumed, "classified" after the entry of line i + 1  *)
(* is built, "enriched" after the embedded-JSON step, "done" after the     *)
(* return, "threw" after an exception left parseLogFile.                   *)
(***************************************************************************)
VARIABLES content, clock, lines, i, pc, entry, entries, detectedFormat,
          filters, timezone, selectedFile, isLoading, reading, parsedLog

vars == <<content, clock, lines, i, pc, entry, entries, detectedFormat,
          filters, timezone, selectedFile, isLoading, reading, parsedLog>>

\* the state around the parser, which no step of parseLogFile touches: the
\* filters of the viewer and the time zone of the machine (hours east of
\* UTC), the state of the upload component with its reads in flight, and
\* the parsed log the application holds
appVars == <<filters, timezone, selectedFile, isLoading, reading, parsedLog>>

\* useState<LogFilters>({search: "", level: "all", ...}), also clearFilters
ClearedFilters ==
  [search |-> <<>>, level |-> <<"a","l","l">>, dateFrom |-> <<>>, dateTo |-> <<>>,
   module |-> <<"a","l","l">>, feature |-> <<"a","l","l">>, user |-> <<"a","l","l">>]

\* the components as they are mounted: no filter set, no file selected, no
\* read in flight, no parsed log
AppAtRest ==
  /\ filters = ClearedFilters
  /\ timezone = clock.zone
  /\ selectedFile = None
  /\ isLoading = FALSE
  /\ reading = <<>>
  /\ parsedLog = None

NoEntry == PlainEntry(<<>>, 0)

Init ==
  /\ content \in Contents
  /\ clock \in ClocksAt(0)
  /\ lines = <<>>
  /\ i = 0
  /\ pc = "start"
  /\ entry = NoEntry
  /\ entries = <<>>
  /\ detectedFormat = "Unknown"
  /\ AppAtRest

\* const lines = content.split("\n"); const entries = []; detectedFormat = "Unknown"
Start ==
  /\ pc = "start"
  /\ lines' = split(content, "\n")
  /\ entries' = <<>>
  /\ detectedFormat' = "Unknown"
  /\ i' = 0
  /\ pc' = "loop"
  /\ UNCHANGED <<appVars, content, clock, entry>>

\* the line at the loop head as the file holds it, without the trim
RawCurrentLine == lines[i + 1]

\* lines[i].trim() of the loop, for the line at the loop head
CurrentLine == trim(lines[i + 1])

\* if (!line) continue
IsBlank(line) == Len(line) = 0

\* a numbering by the count of records so far, which does not count the
\* skipped lines
RecordNumberOf(index, count) == count + 1

\* const lineNumber = i + 1
LineNumberOf(index, count) == index + 1

AtLine == pc = "loop" /\ i < Len(lines)

SkipBlank ==
  /\ AtLine
  /\ IsBlank(CurrentLine)
  /\ i' = i + 1
  /\ UNCHANGED <<appVars, content, clock, lines, pc, entry, entries, detectedFormat>>

\* a label that is set once, by the first classified line, and then kept
FirstFormat(current, format) == IF current = "Unknown" THEN format ELSE current

\* the running label after a line classified as `format`
NextFormat(current, format) == format

\* the assignments of the branch `path` of the classification c
ClassifiedBy(path, c) ==
  /\ c.path = path
  /\ entry' = c.entry
  /\ detectedFormat' = NextFormat(detectedFormat, c.format)
  /\ pc' = "classified"
  /\ UNCHANGED <<appVars, content, clock, lines, i, entries>>

\* line.startsWith("{") and parseJsonLog returned an entry
ClassifyJson ==
  /\ AtLine
  /\ ~IsBlank(CurrentLine)
  /\ ClassifiedBy("json", Classify(CurrentLine, LineNumberOf(i, Len(entries)), clock))

\* a pattern of the registry matched
ClassifyPattern ==
  /\ AtLine
  /\ ~IsBlank(CurrentLine)
  /\ ClassifiedBy("pattern", Classify(CurrentLine, LineNumberOf(i, Len(entries)), clock))

\* the plain-text fallback
ClassifyPlain ==
  /\ AtLine
  /\ ~IsBlank(CurrentLine)
  /\ ClassifiedBy("plain", Classify(CurrentLine, LineNumberOf(i, Len(entries)), clock))

\* the enrichment e returned
EnrichedBy(e) ==
  /\ ~e.threw
  /\ entry' = e.entry
  /\ pc' = "enriched"
  /\ UNCHANGED <<appVars, content, clock, lines, i, entries, detectedFormat>>

EnrichStep ==
  /\ pc = "classified"
  /\ EnrichedBy(Enrich(entry, clock))

\* String() of a value of the embedded object threw: the exception leaves
\* parseLogFile, which has no handler around the enrichment
EnrichThrows ==
  /\ pc = "classified"
  /\ Enrich(entry, clock).threw
  /\ pc' = "threw"
  /\ UNCHANGED <<appVars, content, clock, lines, i, entry, entries, detectedFormat>>

\* entries.push(entry)
Push ==
  /\ pc = "enriched"
  /\ entries' = Append(entries, entry)
  /\ i' = i + 1
  /\ entry' = NoEntry
  /\ pc' = "loop"
  /\ UNCHANGED <<appVars, content, clock, lines, detectedFormat>>

\* return { entries, totalLines: lines.length, filename, detectedFormat }
Return ==
  /\ pc = "loop"
  /\ i = Len(lines)
  /\ pc' = "done"
  /\ UNCHANGED <<appVars, content, clock, lines, i, entry, entries, detectedFormat>>

Next ==
  \/ Start
  \/ SkipBlank
  \/ ClassifyJson
  \/ ClassifyPattern
  \/ ClassifyPlain
  \/ EnrichStep
  \/ EnrichThrows
  \/ Push
  \/ Return

Spec == Init /\ [][Next]_vars

\* the aggregate parseLogFile returns
totalLines == Len(lines)

(***************************************************************************)
(* The properties of parseLogFile.  A line is blank when it holds nothing  *)
(* but white space; the positions below are positions in the "\n" split of *)
(* the input.                                                              *)
(***************************************************************************)
Blank(line) == AllIn(line, WhiteSpace)

\* the number of blank lines among the first n lines
BlankCount(n) == Cardinality({p \in 1..n : Blank(lines[p])})

\* the number of "\n"-separated segments of the input
Segments == Cardinality({k \in 1..Len(content) : content[k] = "\n"}) + 1

\* the number of records made from the line at position p
RecordsOf(p) == Cardinality({k \in 1..Len(entries) : entries[k].lineNumber = p})

RECURSIVE NonBlankUpTo(_)
\* the positions of the non-blank lines among the first n lines, in order
NonBlankUpTo(n) ==
  IF n = 0 THEN <<>>
  ELSE NonBlankUpTo(n - 1) \o (IF Blank(lines[n]) THEN <<>> ELSE <<n>>)

RECURSIVE LastNonBlank(_)
\* the position of the last non-blank line among the first n lines, 0 if none
LastNonBlank(n) ==
  IF n = 0 THEN 0
  ELSE IF Blank(lines[n]) THEN LastNonBlank(n - 1)
  ELSE n

\* the lines consumed so far have been split off the input
Parsing == pc \in {"loop", "classified", "enriched", "threw", "done"}

\* C1: after any number of lines consumed there is exactly one record per
\* non-blank line and none per blank line, so the records and the blank lines
\* together count the lines consumed; at the return every line is consumed,
\* and totalLines is the number of "\n"-separated segments of the input.
RecordPerNonBlankLine ==
  /\ Parsing =>
       /\ \A p \in 1..i : RecordsOf(p) = IF Blank(lines[p]) THEN 0 ELSE 1
       /\ Len(entries) + BlankCount(i) = i
       /\ totalLines = Segments
  /\ pc = "done" => Len(entries) + BlankCount(totalLines) = totalLines

\* a returned result of a two-line file with one record and one line of
\* white space
BlankLineSkipped ==
  /\ pc = "done"
  /\ totalLines = 2
  /\ Len(entries) = 1
  /\ \E p \in 1..2 : Len(lines[p]) > 0 /\ Blank(lines[p])

\* C2: the k-th record carries the position of the k-th non-blank line of the
\* split, so lineNumber is strictly increasing; its id is "line-" followed by
\* that position, so the ids of one result are pairwise distinct.
LineNumberIsPosition ==
  Parsing =>
    /\ Len(entries) = Len(NonBlankUpTo(i))
    /\ \A k \in 1..Len(entries) :
         /\ entries[k].lineNumber = NonBlankUpTo(i)[k]
         /\ entries[k].id = <<"line-", entries[k].lineNumber>>
    /\ \A j, k \in 1..Len(entries) :
         /\ j < k => entries[j].lineNumber < entries[k].lineNumber
         /\ j # k => entries[j].id # entries[k].id

\* a returned record of line 2 that follows a skipped blank line 1
NumberedAcrossBlank ==
  /\ pc = "done"
  /\ Len(entries) = 1
  /\ Blank(lines[1])
  /\ entries[1].lineNumber = 2
  /\ entries[1].id = <<"line-", 2>>

\* C3: parseLogFile never raises an error: no exception leaves it, whatever
\* the lines hold.
NeverRaises == pc # "threw"

\* C4: the level of every record is absent or one of the six severities.
LevelInEnum ==
  \A k \in 1..Len(entries) :
    IsNone(entries[k].level) \/ \E l \in 1..Len(levels) : Val(entries[k].level) = levels[l]

\* C5: the message of every record is non-empty.
MessageNonEmpty == \A k \in 1..Len(entries) : Len(entries[k].message) > 0

\* C6: the rawLine of every record is the line of the input at the record's
\* position, character for character, and the enrichment leaves it as the
\* classification set it.
RawLineExact ==
  /\ \A k \in 1..Len(entries) : entries[k].rawLine = lines[entries[k].lineNumber]
  /\ pc \in {"classified", "enriched"} => entry.rawLine = lines[i + 1]

\* the classification of the line at the loop head, for the states in which
\* its entry is held and not yet pushed
Current == Classify(CurrentLine, i + 1, clock)

\* the level group of the pattern k, 0 when k is no pattern or has none
LevelGroup(k) == IF k = 0 THEN 0 ELSE LOG_PATTERNS[k].level

\* the entry of the classification c was built by a pattern that captures a
\* level, k being the first pattern that matches the line
CapturesLevel(c, k) == c.path = "pattern" /\ LevelGroup(k) # 0

\* the level token the pattern k captures in the line
CapturedLevel(line, k) == Match(k, line).m[LevelGroup(k)]

\* the level of the entry of the classification c of `line` is, under C7: the
\* captured token where the first matching pattern k captures one, the
\* scanner's level for a pattern without a level capture and for plain text
LevelByPath(c, line, k, level) ==
  /\ CapturesLevel(c, k) => level = Some(CapturedLevel(line, k))
  /\ (c.path = "pattern" /\ ~CapturesLevel(c, k)) => level = detectLogLevel(line)
  /\ c.path = "plain" => level = detectLogLevel(line)

\* C7: where the first matching pattern captures a level, the level of the
\* entry is the captured token, whatever severity words the line holds, and
\* it stays so through the enrichment; the level is the scanner's only for a
\* pattern without a level capture and for the plain-text fallback.
CapturedLevelWins ==
  /\ pc = "classified" =>
       LevelByPath(Current, CurrentLine, FirstPattern(CurrentLine), entry.level)
  /\ (pc = "enriched" /\ CapturesLevel(Current, FirstPattern(CurrentLine))) =>
       entry.level = Some(CapturedLevel(CurrentLine, FirstPattern(CurrentLine)))

\* an entry whose captured level is WARN although the scanner finds ERROR in
\* its line
CapturedOverScanned ==
  /\ pc = "enriched"
  /\ CapturesLevel(Current, FirstPattern(CurrentLine))
  /\ entry.level = Some(<<"W","A","R","N">>)
  /\ detectLogLevel(CurrentLine) = Some(<<"E","R","R","O","R">>)

\* the step from a classified entry to its enriched entry
EnrichmentStep == pc = "classified" /\ pc' = "enriched"

\* C8: the enrichment overwrites no field that is set: a timestamp, level,
\* source or thread the classified entry holds is the same after the step.
BackfillKeepsSetFields ==
  [][EnrichmentStep =>
       /\ IsSome(entry.timestamp) => entry'.timestamp = entry.timestamp
       /\ IsSome(entry.level) => entry'.level = entry.level
       /\ IsSome(entry.source) => entry'.source = entry.source
       /\ IsSome(entry.thread) => entry'.thread = entry.thread]_vars

\* an enriched entry of a pattern line that keeps its timestamp and its level
\* WARN although the embedded object holds a timestamp and the level "error"
SetFieldsKeptOverEmbedded ==
  /\ pc = "enriched"
  /\ Current.path = "pattern"
  /\ IsSome(entry.metadata)
  /\ entry.level = Some(<<"W","A","R","N">>)
  /\ coerceLevel(pick(Val(entry.metadata), BackfillLevelKeys)).level = Some(<<"E","R","R","O","R">>)
  /\ IsSome(entry.timestamp)
  /\ entry.timestamp = Current.entry.timestamp

\* the label of the classification path of a line of the input
LabelOf(line) == Classify(trim(line), 1, clock).format

\* C9: after any prefix of the file, detectedFormat is the label of the path
\* taken by the most recent non-blank line, and "Unknown" exactly when there
\* has been none; so the returned label is that of the last non-blank line.
LabelOfLastLine ==
  pc \in {"loop", "done"} =>
    /\ LastNonBlank(i) = 0 => detectedFormat = "Unknown"
    /\ LastNonBlank(i) # 0 =>
         /\ detectedFormat = LabelOf(lines[LastNonBlank(i)])
         /\ detectedFormat # "Unknown"

\* a returned label that is the second line's, the first line's being another
LabelOverwritten ==
  /\ pc = "done"
  /\ Len(entries) = 2
  /\ LabelOf(lines[1]) # LabelOf(lines[2])
  /\ detectedFormat = LabelOf(lines[2])

\* the records of a parse whose one non-blank line has the enrichment e
OneRecord(e) == IF e.threw THEN <<>> ELSE <<e.entry>>

\* the records parseLogFile returns for a text of one line under clock c: none
\* for a blank line, else the enriched entry of the trimmed line
OneLineRecords(text, c) ==
  IF IsBlank(trim(text)) THEN <<>>
  ELSE OneRecord(Enrich(Classify(trim(text), 1, c).entry, c))

\* the record r is the one record of the parse of its rawLine
Reparsed(r, again) ==
  /\ Len(again) = 1
  /\ again[1].level = r.level
  /\ again[1].timestamp = r.timestamp
  /\ again[1].message = r.message
  /\ again[1].metadata = r.metadata

\* C10: the parse of the rawLine of a record, as a text of one line under the
\* same clock, gives one record with the level, timestamp, message and
\* metadata of the record; stated of the records held at the loop head and
\* at the return, where every record pushed is held.
ReparseIdempotent ==
  pc \in {"loop", "done"} =>
    \A k \in 1..Len(entries) :
      /\ "\n" \notin {entries[k].rawLine[j] : j \in 1..Len(entries[k].rawLine)}
      /\ Reparsed(entries[k], OneLineRecords(entries[k].rawLine, clock))

\* a returned record of a line with an embedded object, whose message the
\* enrichment derived, and that the parse of its rawLine gives again
EnrichedReparsed ==
  /\ pc = "done"
  /\ \E k \in 1..Len(entries) :
       /\ IsSome(entries[k].metadata)
       /\ entries[k].message # entries[k].rawLine
       /\ IsSome(entries[k].timestamp)
       /\ FirstPattern(entries[k].rawLine) = 3
       /\ Reparsed(entries[k], OneLineRecords(entries[k].rawLine, clock))

\* the level the full-line interpreter is to store for the value lv of the
\* object's "level": lv upper-cased when it is a string that names one of the
\* six levels, absent otherwise
VocabularyLevel(lv) ==
  IF lv.t = "string" /\ (\E l \in 1..Len(levels) : levels[l] = toUpperCase(lv.s))
  THEN Some(toUpperCase(lv.s))
  ELSE None

\* C11: the level of an entry built by the full-line JSON path (the only path
\* whose classified entry holds metadata) is the object's "level" upper-cased
\* when that is one of the six levels, and absent otherwise.
FullLineLevelInVocabulary ==
  (pc = "classified" /\ IsSome(entry.metadata)) =>
    entry.level = VocabularyLevel(Get(Val(entry.metadata), <<"l","e","v","e","l">>))

\* the line at the loop head begins with "{" and is not strict JSON
FailedJsonLine == startsWith(CurrentLine, <<"{">>) /\ ~JSONparse(CurrentLine).ok

\* the names of the five matchers of the registry, in order
FiveMatchers ==
  <<"ISO with level", "Standard format", "Syslog format", "Apache access", "Simple timestamp">>

\* the expressions of the five matchers, by their places in LOG_PATTERNS
FiveExpressions == <<1, 2, 3, 4, 6>>

\* the label of the first of the five matchers that matches the line, "Plain
\* text" when none does
LabelOfFive(line) ==
  IF \E k \in 1..5 : Match(FiveExpressions[k], line).ok
  THEN FiveMatchers[CHOOSE k \in 1..5 :
                      /\ Match(FiveExpressions[k], line).ok
                      /\ \A j \in 1..(k - 1) : ~Match(FiveExpressions[j], line).ok]
  ELSE "Plain text"

\* C12: a line that begins with "{" and fails the strict JSON parse is
\* labelled by the first of the five matchers that matches it; when none
\* does its entry is the plain-text one, with the trimmed line as message
\* and the label "Plain text"; its label is never "JSON format".
FailedJsonNeverJsonFormat ==
  (pc = "classified" /\ FailedJsonLine) =>
    /\ detectedFormat = LabelOfFive(CurrentLine)
    /\ detectedFormat # "JSON format"
    /\ LabelOfFive(CurrentLine) = "Plain text" =>
         entry = PlainEntry(CurrentLine, i + 1)

\* the head buildSummary joins: the strings pushed for the module, feature,
\* type and status picks, the empty ones filtered out
SummaryHead(obj) ==
  join(FilterNonEmpty(Pushed(<<pick(obj, ModuleKeys), pick(obj, FeatureKeys),
                               pick(obj, TypeKeys), pick(obj, StatusKeys)>>,
                             <<TRUE, TRUE,
                               KeepType(pick(obj, TypeKeys), pick(obj, MessageKeys)),
                               TRUE>>)),
       Bullet)

\* the message text of an object: the string of the first value among
\* message, msg, text that is neither undefined nor null; empty when none is
TextOf(v) == IF NotNullish(v) THEN String(v).s ELSE <<>>
MessageText(obj) == TextOf(pick(obj, MessageKeys))

\* the summary C13 gives for the head h and the message text m
Composed(h, m) ==
  IF Len(h) > 0 /\ Len(m) > 0 THEN h \o Dash \o m
  ELSE IF Len(h) > 0 THEN h
  ELSE IF Len(m) > 0 THEN m
  ELSE LogEntryText

SummaryIsComposed(summary, h, m) ==
  ~summary.threw => (summary.s = Composed(h, m) /\ Len(summary.s) > 0)

\* C13: for every object parsed for a line, buildSummary returns
\* "<h> - <m>" (with the long dash) for its head h and its message text m
\* when both are non-empty, h or m when only that one is non-empty, and
\* "Log entry" when both are empty; it never returns the empty string.
SummaryComposition ==
  (pc \in {"classified", "enriched"} /\ IsSome(entry.metadata)) =>
    SummaryIsComposed(buildSummary(Val(entry.metadata)),
                      SummaryHead(Val(entry.metadata)),
                      MessageText(Val(entry.metadata)))

\* the six literals of the scanner in its order of priority
SeverityOrder == <<<<"F","A","T","A","L">>, <<"E","R","R","O","R">>, <<"W","A","R","N">>, <<"I","N","F","O">>, <<"D","E","B","U","G">>, <<"T","R","A","C","E">>>>

\* the literal is a substring of the text
Occurs(text, literal) ==
  \E p \in 1..(Len(text) - Len(literal) + 1) : SubSeq(text, p, p + Len(literal) - 1) = literal

\* `found` is what C14 gives for a text whose upper-casing is `upper`: the
\* first literal in the order of priority that occurs in it, absent exactly
\* when none occurs
FirstOccurring(upper, found) ==
  /\ \A l \in 1..Len(SeverityOrder) :
       found = Some(SeverityOrder[l]) <=>
         /\ Occurs(upper, SeverityOrder[l])
         /\ \A j \in 1..(l - 1) : ~Occurs(upper, SeverityOrder[j])
  /\ IsNone(found) <=> \A l \in 1..Len(SeverityOrder) : ~Occurs(upper, SeverityOrder[l])

\* C14: for the line at the loop head, the scanner returns the first of
\* FATAL, ERROR, WARN, INFO, DEBUG, TRACE that occurs as a substring of the
\* upper-cased line, wherever it occurs, and absent exactly when none of the
\* six occurs; the level of a plain-text entry is that result.
ScannerFirstByPriority ==
  /\ (AtLine /\ ~IsBlank(CurrentLine)) =>
       FirstOccurring(toUpperCase(CurrentLine), detectLogLevel(CurrentLine))
  /\ (pc = "classified" /\ detectedFormat = "Plain text") =>
       FirstOccurring(toUpperCase(CurrentLine), entry.level)

\* the plain-text entry of the line "order processed warn retrying", whose
\* level is WARN
WarnRetrying ==
  /\ pc = "classified"
  /\ CurrentLine = <<"o","r","d","e","r"," ","p","r","o","c","e","s","s","e","d"," ","w","a","r","n"," ","r","e","t","r","y","i","n","g">>
  /\ entry.level = Some(<<"W","A","R","N">>)

\* the step that builds the entry of the line at the loop head
ClassificationStep == pc = "loop" /\ pc' = "classified"

\* C15: an entry has metadata if and only if a JSON object was parsed for
\* its line, and the metadata is that object, key for key.  The classified
\* entry holds metadata only as the object the whole line parses to; the
\* enrichment keeps that object, and gives an entry without metadata the
\* first balanced object of its message exactly when that object parses.
MetadataIsParsedObject ==
  [][/\ (ClassificationStep /\ IsSome(entry'.metadata)) =>
          /\ startsWith(CurrentLine, <<"{">>)
          /\ JSONparse(CurrentLine).ok
          /\ entry'.metadata = Some(JSONparse(CurrentLine).v)
     /\ (EnrichmentStep /\ IsSome(entry.metadata)) => entry'.metadata = entry.metadata
     /\ (EnrichmentStep /\ IsNone(entry.metadata)) =>
          /\ IsSome(entry'.metadata) <=> extractFirstJsonObject(entry.message).found
          /\ IsSome(entry'.metadata) =>
               entry'.metadata = Some(extractFirstJsonObject(entry.message).json)]_vars

\* a finished entry of the full-line path whose metadata is the object of
\* four members its line parses to
WholeLineObjectKept ==
  /\ pc = "enriched"
  /\ detectedFormat = "JSON format"
  /\ startsWith(entry.rawLine, <<"{">>)
  /\ IsSome(entry.metadata)
  /\ Len(Val(entry.metadata).kv) = 4
  /\ entry.metadata = Some(JSONparse(entry.rawLine).v)
  /\ entry.message # entry.rawLine

\* C16: for a line that begins with "{" and parses as a JSON object, the
\* classified entry is the full-line interpreter's, which alone holds the
\* parsed object as metadata at this point, and the label is "JSON format";
\* the entry is not one the registry or the scanner built.
ParsedObjectTakesJsonPath ==
  (pc = "classified" /\ startsWith(CurrentLine, <<"{">>) /\ JSONparse(CurrentLine).ok) =>
    /\ entry.metadata = Some(JSONparse(CurrentLine).v)
    /\ detectedFormat = "JSON format"
    /\ FirstPattern(CurrentLine) # 0 =>
         entry # PatternEntry(FirstPattern(CurrentLine), CurrentLine, i + 1, clock)

\* the string of a pick that is present and non-null, as a part of the head
Present(v, keep) == IF NotNullish(v) /\ keep THEN <<String(v).s>> ELSE <<>>

\* the head C17 gives: the strings of the module, feature, type and status
\* picks that are present, in that order, joined by the bullet; the type is
\* left out when its lower-cased string is the lower-cased message text
PresentHeadOf(moduleName, feature, type, status, text) ==
  join(Present(moduleName, TRUE) \o Present(feature, TRUE)
         \o Present(type, toLowerCase(String(type).s) # toLowerCase(text))
         \o Present(status, TRUE),
       Bullet)

PresentHead(obj) ==
  PresentHeadOf(pick(obj, ModuleKeys), pick(obj, FeatureKeys), pick(obj, TypeKeys),
                pick(obj, StatusKeys), MessageText(obj))

\* the head of the derived message of the embedded path
DerivedHeadOf(obj, messageVal) ==
  DerivedHead(pick(obj, ModuleKeys), pick(obj, FeatureKeys), pick(obj, TypeKeys),
              pick(obj, StatusKeys),
              IF Truthy(messageVal) THEN String(messageVal).s ELSE <<>>)

\* C17: for every object parsed for a line, the head of buildSummary and the
\* head of the derived message hold the string of every pick that is present
\* and non-null (0 and false included), in the order module, feature, type,
\* status, joined by the bullet, the type left out only when it repeats the
\* message text.
HeadHoldsEveryPick ==
  (pc \in {"classified", "enriched"} /\ IsSome(entry.metadata)
     /\ ~buildSummary(Val(entry.metadata)).threw) =>
    /\ SummaryHead(Val(entry.metadata)) = PresentHead(Val(entry.metadata))
    /\ DerivedHeadOf(Val(entry.metadata), pick(Val(entry.metadata), MessageKeys))
         = PresentHead(Val(entry.metadata))

\* C18: for every object parsed for a line whose summary has a non-empty
\* head or a non-empty message text (of a message value that is not 0, false
\* or ""), buildSummary of the full-line path and the derived message of the
\* embedded path are the same text.
SamePathsSameSummary ==
  (pc \in {"classified", "enriched"} /\ IsSome(entry.metadata)
     /\ ~buildSummary(Val(entry.metadata)).threw
     /\ (Len(SummaryHead(Val(entry.metadata))) > 0
           \/ (Truthy(pick(Val(entry.metadata), MessageKeys))
                 /\ Len(MessageText(Val(entry.metadata))) > 0))) =>
    buildSummary(Val(entry.metadata)).s = derived(Val(entry.metadata)).s

\* the timestamp, level, source and thread the full-line interpreter gives
\* for the object obj
FullLineTimestamp(ts, c) == IF Truthy(ts) THEN parseTimestamp(ts, c) ELSE None
FullLineFields(obj, c) ==
  [timestamp |-> FullLineTimestamp(OrChain(obj, TimestampKeys), c),
   level |-> JsonLevel(obj).level,
   vocabularyLevel |-> VocabularyLevel(Get(obj, <<"l","e","v","e","l">>)),
   source |-> StringOrChain(obj, SourceKeys),
   thread |-> StringOrChain(obj, ThreadKeys)]

\* each field that before is absent is in after the field of full; for the
\* level, the full-line level as stored or as restricted to the six levels
BackfilledAs(before, after, full) ==
  /\ IsNone(before.timestamp) => after.timestamp = full.timestamp
  /\ IsNone(before.level) => after.level \in {full.level, full.vocabularyLevel}
  /\ IsNone(before.source) => after.source = full.source
  /\ IsNone(before.thread) => after.thread = full.thread

\* C19: when the enrichment gives an entry the object embedded in its
\* message, each of timestamp, level, source and thread that was absent
\* becomes what the full-line interpreter gives for that object: the same
\* candidate keys and the same rule of selection on both paths.
BackfillAsFullLine ==
  [][(EnrichmentStep /\ IsNone(entry.metadata) /\ IsSome(entry'.metadata)) =>
       BackfilledAs(entry, entry', FullLineFields(Val(entry'.metadata), clock))]_vars

\* the text from its first "{" holds no balanced span, or the first balanced
\* span is not strict JSON; also when the text holds no "{"
NoObjectFrom(text, startIdx, endIdx) ==
  \/ startIdx = 0
  \/ endIdx = 0
  \/ ~JSONparse(SubSeq(text, startIdx, endIdx)).ok

NoObjectAtFirstBrace(text) ==
  NoObjectFrom(text, indexOf(text, "{"),
               IF indexOf(text, "{") = 0 THEN 0
               ELSE ScanBalanced(text, indexOf(text, "{"), 0))

\* C20: when the message of the classified entry holds no balanced span from
\* its first "{", or that span is not strict JSON, the enrichment leaves the
\* entry as the classification built it, field for field; a later "{" of the
\* message is not tried.
UntouchedWithoutObject ==
  [][(EnrichmentStep /\ NoObjectAtFirstBrace(entry.message)) => entry' = entry]_vars

\* a finished entry without metadata whose message holds, after a first span
\* "{bad}" that is not JSON, an object that parses
LaterObjectNotTried ==
  /\ pc = "enriched"
  /\ IsNone(entry.metadata)
  /\ indexOf(entry.message, "{") # 0
  /\ NoObjectAtFirstBrace(entry.message)
  /\ extractFirstJsonObject(From(entry.message, indexOf(entry.message, "{") + 1)).found
  /\ entry.message = entry.rawLine

\* the number of backslashes that stand immediately before position q, from
\* position p on
BackslashRun(text, p, q) ==
  Cardinality({j \in p..(q - 1) : \A m \in j..(q - 1) : text[m] = "\\"})

\* the quote that closes a string literal whose first character is at p: the
\* first quote not preceded by an odd run of backslashes; past the end of
\* the text when there is none
ClosingQuote(text, p) ==
  IF \E q \in p..Len(text) : text[q] = "\"" /\ BackslashRun(text, p, q) % 2 = 0
  THEN CHOOSE q \in p..Len(text) :
         /\ text[q] = "\"" /\ BackslashRun(text, p, q) % 2 = 0
         /\ \A r \in p..(q - 1) : ~(text[r] = "\"" /\ BackslashRun(text, p, r) % 2 = 0)
  ELSE Len(text) + 1

RECURSIVE Literals(_, _)
\* the string literals of the text from position p on, p outside a literal:
\* the pairs <<opening quote, closing quote>>
Literals(text, p) ==
  IF NextIn(text, p, {"\""}) > Len(text) THEN {}
  ELSE {<<NextIn(text, p, {"\""}), ClosingQuote(text, NextIn(text, p, {"\""}) + 1)>>}
       \cup Literals(text, ClosingQuote(text, NextIn(text, p, {"\""}) + 1) + 1)

\* the positions from start on that hold a brace outside every literal
BracesOutside(text, start, literals) ==
  {k \in start..Len(text) :
     /\ text[k] \in {"{", "}"}
     /\ \A l \in literals : k < l[1] \/ k > l[2]}

\* the count of "{" minus the count of "}" among the braces up to k
DepthAt(text, braces, k) ==
  Cardinality({j \in braces : j <= k /\ text[j] = "{"})
    - Cardinality({j \in braces : j <= k /\ text[j] = "}"})

\* the first brace at which the depth is zero again, 0 when there is none
FirstBalanced(text, braces) ==
  IF \E k \in braces : DepthAt(text, braces, k) = 0
  THEN CHOOSE k \in braces :
         /\ DepthAt(text, braces, k) = 0
         /\ \A j \in braces : j < k => DepthAt(text, braces, j) # 0
  ELSE 0

\* the end of the shortest balanced span from the first "{" of the text
ShortestBalanced(text, start) ==
  FirstBalanced(text, BracesOutside(text, start, Literals(text, start)))

\* the scan of a text with a "{" ends where C21 says, and the extractor's
\* span, when it returns one, is that span
ScanEndsAt(text, start, extracted) ==
  /\ ScanBalanced(text, start, 0) = ShortestBalanced(text, start)
  /\ extracted.found =>
       (extracted.start = start /\ extracted.end = ShortestBalanced(text, start))

\* C21: the scan of the message of a classified entry starts at the first
\* "{" and ends at the first "}" at which the count of "{" less "}" outside
\* string literals is zero again, a quote after an odd run of backslashes
\* inside a literal not ending the literal and no brace inside a literal
\* counted; it finds nothing when the message ends before that.
ScanIsShortestBalanced ==
  (pc = "classified" /\ indexOf(entry.message, "{") # 0) =>
    ScanEndsAt(entry.message, indexOf(entry.message, "{"),
               extractFirstJsonObject(entry.message))

\* a classified entry whose message holds, before the end of its balanced
\* span, a literal with an escaped quote followed by a "}"
EscapedQuoteBeforeBrace ==
  /\ pc = "classified"
  /\ indexOf(entry.message, "{") # 0
  /\ ScanBalanced(entry.message, indexOf(entry.message, "{"), 0) # 0
  /\ \E q \in 2..(Len(entry.message) - 1) :
       /\ q < ScanBalanced(entry.message, indexOf(entry.message, "{"), 0)
       /\ entry.message[q - 1] = "\\"
       /\ entry.message[q] = "\""
       /\ entry.message[q + 1] = "}"

\* one of the six severity words occurs in the text, in any case of letters
SeverityIn(text) ==
  \E l \in 1..Len(SeverityOrder) : Occurs(toUpperCase(text), SeverityOrder[l])

\* the line holds an embedded object x, and severity words inside the span
\* of the object only
SeverityOnlyInObject(line, x) ==
  /\ x.found
  /\ SeverityIn(SubSeq(line, x.start, x.end))
  /\ ~SeverityIn(SubSeq(line, 1, x.start - 1))
  /\ ~SeverityIn(From(line, x.end + 1))

\* the line at the loop head took the plain-text path and holds its only
\* severity word inside its embedded object
PlainWithEmbeddedSeverity ==
  /\ detectedFormat = "Plain text"
  /\ SeverityOnlyInObject(CurrentLine, extractFirstJsonObject(CurrentLine))

\* C22 as stated: for a plain-text line whose only severity word is inside
\* its embedded object, the classified entry has the line as message and no
\* level, and the level of the finished entry is the one the backfill takes
\* from the object's "level".
PlainLevelLeftToBackfill ==
  /\ (pc = "classified" /\ PlainWithEmbeddedSeverity) =>
       (entry.message = CurrentLine /\ IsNone(entry.level))
  /\ (pc = "enriched" /\ PlainWithEmbeddedSeverity) =>
       entry.level = coerceLevel(Get(Val(entry.metadata), <<"l","e","v","e","l">>)).level

\* C22 as amended: for such a line the classified entry has the line as
\* message and the level the scanner finds in the text of the line, the
\* text of the object included; the enrichment keeps that level and stores
\* the object as metadata.
PlainLevelFromScanner ==
  /\ (pc = "classified" /\ PlainWithEmbeddedSeverity) =>
       /\ entry.message = CurrentLine
       /\ IsSome(entry.level)
       /\ FirstOccurring(toUpperCase(CurrentLine), entry.level)
  /\ (pc = "enriched" /\ PlainWithEmbeddedSeverity) =>
       /\ IsSome(entry.level)
       /\ FirstOccurring(toUpperCase(CurrentLine), entry.level)
       /\ entry.metadata = Some(extractFirstJsonObject(CurrentLine).json)

\* the finished entry of the line 'Unhandled exception {"level":"error",
\* "module":"auth"}': level ERROR, the object as metadata
UnhandledException ==
  /\ pc = "enriched"
  /\ PlainWithEmbeddedSeverity
  /\ OccursAt(entry.rawLine, <<"U","n","h","a","n","d","l","e","d"," ","e","x","c","e","p","t","i","o","n"," ","{">>, 1)
  /\ entry.level = Some(<<"E","R","R","O","R">>)
  /\ IsSome(entry.metadata)
  /\ Get(Val(entry.metadata), <<"m","o","d","u","l","e">>) = JsStr(<<"a","u","t","h">>)

\* the four strategies of the normalizer in their order, as the formats of
\* parseTimestamp that carry them out: the direct parse (the second format
\* is the direct parse again), the syslog token with the current year, the
\* Apache reordering, the bare time with the current date
StrategyOrder == <<1, 3, 4, 5>>

\* the strategy of rank n gives a valid instant for the token v
Succeeds(n, v, c) == IsSome(Format(StrategyOrder[n], v, c))

\* the strategy of rank n throws for the token v
Throws(n, v, c) == FormatInput(StrategyOrder[n], v, c).kind = "throws"

\* the instant of the first strategy, in the order, that gives a valid one;
\* absent for an empty (falsy) token and when no strategy does
FirstValid(v, c) ==
  IF ~Truthy(v) \/ ~\E n \in 1..Len(StrategyOrder) : Succeeds(n, v, c) THEN None
  ELSE Format(StrategyOrder[CHOOSE n \in 1..Len(StrategyOrder) :
                              /\ Succeeds(n, v, c)
                              /\ \A m \in 1..(n - 1) : ~Succeeds(m, v, c)], v, c)

\* the timestamp token a registry pattern captured from the line at the loop
\* head ("" when the first pattern that matches captures none)
CapturedToken ==
  IF FirstPattern(CurrentLine) = 0 THEN <<>>
  ELSE IF LOG_PATTERNS[FirstPattern(CurrentLine)].timestamp = 0 THEN <<>>
  ELSE Match(FirstPattern(CurrentLine), CurrentLine).m[LOG_PATTERNS[FirstPattern(CurrentLine)].timestamp]

\* the three places that hand a token to the normalizer: the registry with
\* the captured token, the full-line interpreter with the first truthy value
\* of the timestamp keys, the backfill with the string of the first non-null
\* value when it is a string or a number
NormalizedByRegistry ==
  (ClassificationStep /\ Current.path = "pattern" /\ Len(CapturedToken) > 0) =>
    entry'.timestamp = FirstValid(JsStr(CapturedToken), clock)
NormalizedByFullLine ==
  (ClassificationStep /\ Current.path = "json") =>
    entry'.timestamp = FirstValid(OrChain(Val(entry'.metadata), TimestampKeys), clock)
NormalizedByBackfill ==
  (EnrichmentStep /\ IsNone(entry.timestamp) /\ IsNone(entry.metadata)
     /\ IsSome(entry'.metadata)
     /\ pick(Val(entry'.metadata), TimestampKeys).t \in {"string", "number"}) =>
    entry'.timestamp =
      FirstValid(JsStr(String(pick(Val(entry'.metadata), TimestampKeys)).s), clock)

\* C23: the timestamp the normalizer gives for a token is the instant of the
\* first strategy, in the order direct parse, syslog with the current year,
\* Apache reordering, bare time with the current date, that gives a valid
\* instant; a strategy that throws or gives an invalid instant is passed
\* over; the result is absent when the token is empty or no strategy
\* succeeds.  Stated for every token the parse hands to the normalizer.
FirstValidStrategyWins ==
  [][NormalizedByRegistry /\ NormalizedByFullLine /\ NormalizedByBackfill]_vars

\* the timestamp token the first matching pattern captures from the line
\* ("" when no pattern matches or it captures none)
CapturedOf(line, k) ==
  IF k = 0 THEN <<>>
  ELSE IF LOG_PATTERNS[k].timestamp = 0 THEN <<>>
  ELSE Match(k, line).m[LOG_PATTERNS[k].timestamp]

\* the record r has the timestamp of a captured token that the direct parse
\* does not read and a later strategy does
LaterStrategyRead(r) ==
  /\ Len(CapturedOf(r.rawLine, FirstPattern(r.rawLine))) > 0
  /\ ~Succeeds(1, JsStr(CapturedOf(r.rawLine, FirstPattern(r.rawLine))), clock)
  /\ IsSome(r.timestamp)
  /\ r.timestamp = FirstValid(JsStr(CapturedOf(r.rawLine, FirstPattern(r.rawLine))), clock)

\* the token v is one that the direct parse and the syslog strategy do not
\* read, for which the Apache strategy throws (v is no string) and the
\* bare-time strategy, tried after it, calls new Date
ThrowPassedOver(v) ==
  /\ Truthy(v)
  /\ ~Succeeds(1, v, clock) /\ ~Succeeds(2, v, clock)
  /\ Throws(3, v, clock)
  /\ FormatInput(StrategyOrder[4], v, clock).kind = "text"

\* a file of two lines: the record of the first has the timestamp of a later
\* strategy, and the full-line object of the second is classified with a
\* token for which a strategy throws and no strategy succeeds, its
\* timestamp absent
LaterReadAndThrowPassedOver ==
  /\ pc = "classified"
  /\ Current.path = "json"
  /\ ThrowPassedOver(OrChain(Val(entry.metadata), TimestampKeys))
  /\ IsNone(entry.timestamp)
  /\ Len(entries) = 1
  /\ LaterStrategyRead(entries[1])

\* the token the backfill hands to the normalizer for the embedded object x
BackfillTokens(x) ==
  IF x.found /\ pick(x.json, TimestampKeys).t \in {"string", "number"}
  THEN {JsStr(String(pick(x.json, TimestampKeys)).s)}
  ELSE {}

\* the tokens a parse of the trimmed line hands to the normalizer, cl being
\* the classification of the line
TokensOf(line, cl) ==
  CASE cl.path = "json" ->
         {v \in {OrChain(Val(cl.entry.metadata), TimestampKeys)} : Truthy(v)}
    [] cl.path = "pattern" ->
         {JsStr(t) : t \in {u \in {CapturedOf(line, FirstPattern(line))} : Len(u) > 0}}
         \cup (IF IsNone(cl.entry.timestamp)
               THEN BackfillTokens(extractFirstJsonObject(cl.entry.message))
               ELSE {})
    [] OTHER -> BackfillTokens(extractFirstJsonObject(cl.entry.message))

\* a parse of the line hands the normalizer a token the direct parse does
\* not read, which is then left to the strategies that read the current
\* year and date
ClockDecided(line) ==
  \E c \in Clocks : \E v \in TokensOf(line, Classify(line, 1, c)) : ~Succeeds(1, v, c)

\* the record r and the one record of another parse of its line agree in
\* every field but the timestamp
SameButTimestamp(r, again) ==
  /\ Len(again) = 1
  /\ again[1].level = r.level
  /\ again[1].message = r.message
  /\ again[1].metadata = r.metadata
  /\ again[1].source = r.source
  /\ again[1].thread = r.thread

\* the record pushed last, at the loop head after its push
JustPushed == pc = "loop" /\ Len(entries) > 0
LastRecord == entries[Len(entries)]

\* another parse of the line of the record r, run under the clock c: at
\* another time, or with another zone of local time, or both
ParsedAgain(r, c) == OneLineRecords(r.rawLine, c)

\* timestamp.getTime() of an optional timestamp, on a machine in the zone
TimeValue(ts, zone) == IF IsSome(ts) THEN Some(InstantOf(Val(ts), zone)) ELSE None

\* the timestamp was read from a text that names no zone
NamesNoZone(ts) == IsSome(ts) /\ Val(ts).kind = "local"

\* r, of a parse under the clock of the state, and the record of another
\* parse, under the clock c, agree in every field, the timestamps being
\* the same instant
SameAtAnyTime(r, again, c) ==
  /\ SameButTimestamp(r, again)
  /\ TimeValue(again[1].timestamp, c.zone) = TimeValue(r.timestamp, clock.zone)

\* they agree in every field but the timestamp; the timestamps are the same
\* date and time of day unless the current year and date decide them, and
\* the same instant too unless, besides, the text names no zone and the two
\* zones of local time differ
SameButClockTimestamp(r, again, c) ==
  /\ SameButTimestamp(r, again)
  /\ (again[1].timestamp # r.timestamp => ClockDecided(trim(r.rawLine)))
  /\ (TimeValue(again[1].timestamp, c.zone) # TimeValue(r.timestamp, clock.zone) =>
        \/ ClockDecided(trim(r.rawLine))
        \/ c.zone # clock.zone /\ NamesNoZone(r.timestamp))

\* C24 as stated: another parse of the same text, whatever the clock and the
\* zone of local time it runs under, gives the same records, timestamps
\* included.
SameResultAtAnyTime ==
  JustPushed =>
    \A c \in Clocks \ {clock} : SameAtAnyTime(LastRecord, ParsedAgain(LastRecord, c), c)

\* C24 as amended: another parse of the same text gives the same records in
\* every field but the timestamp, and the same timestamp too unless the line
\* hands the normalizer a token that the direct parse does not read (the
\* current year and date decide it) or the timestamp is written without a
\* zone and the zone of local time differs (the same date and time of day,
\* another instant): the current date and the zone of local time are the
\* only things a parse reads beyond its arguments.
SameResultButClockTimestamps ==
  JustPushed =>
    \A c \in Clocks \ {clock} :
      SameButClockTimestamp(LastRecord, ParsedAgain(LastRecord, c), c)

\* the timestamp of the record r is read by the direct parse from a text
\* that names no zone: another parse of its line, run with another zone of
\* local time, gives the same date and time of day, another instant
InstantOfTheZone(r) ==
  /\ NamesNoZone(r.timestamp)
  /\ ~ClockDecided(trim(r.rawLine))
  /\ \E c \in Clocks :
       /\ c.zone # clock.zone
       /\ ParsedAgain(r, c)[1].timestamp = r.timestamp
       /\ TimeValue(ParsedAgain(r, c)[1].timestamp, c.zone) # TimeValue(r.timestamp, clock.zone)

\* a record with a timestamp that another parse of the same line, run in
\* another year, gives differently, after a record whose timestamp is
\* another instant in another zone only
TimestampOfTheYear ==
  /\ JustPushed
  /\ IsSome(LastRecord.timestamp)
  /\ \E c \in ClocksAt(clock.zone) \ {clock} :
       /\ SameButTimestamp(LastRecord, ParsedAgain(LastRecord, c))
       /\ ParsedAgain(LastRecord, c)[1].timestamp # LastRecord.timestamp
  /\ Len(entries) = 2
  /\ InstantOfTheZone(entries[1])

(***************************************************************************)
(* parseLogFile as a function: the aggregate the steps above end with,     *)
(* for the callers of the parser.                                          *)
(***************************************************************************)
RECURSIVE ParseFrom(_, _, _, _)
\* the loop after line k, whose entry is enriched to e and labelled format
ParseAfter(ls, k, c, acc, e, format) ==
  IF e.threw THEN [acc EXCEPT !.threw = TRUE]
  ELSE ParseFrom(ls, k + 1, c,
                 [threw |-> FALSE,
                  entries |-> Append(acc.entries, e.entry),
                  detectedFormat |-> NextFormat(acc.detectedFormat, format)])

\* the loop at line k, classified as cl
ParseLine(ls, k, c, acc, cl) == ParseAfter(ls, k, c, acc, Enrich(cl.entry, c), cl.format)

\* the loop of parseLogFile from line k on, acc holding the entries and the
\* label so far; threw when the enrichment of a line raises
ParseFrom(ls, k, c, acc) ==
  IF k > Len(ls) THEN acc
  ELSE IF IsBlank(trim(ls[k])) THEN ParseFrom(ls, k + 1, c, acc)
  ELSE ParseLine(ls, k, c, acc, Classify(trim(ls[k]), k, c))

\* the fields of the aggregate for the lines ls parsed to r
Aggregate(ls, filename, r) ==
  [threw |-> r.threw, entries |-> r.entries, totalLines |-> Len(ls),
   filename |-> filename, detectedFormat |-> r.detectedFormat]

\* parseLogFile(content, filename), run when the clock reads c
parseLogFile(text, filename, c) ==
  Aggregate(split(text, "\n"), filename,
            ParseFrom(split(text, "\n"), 1, c,
                      [threw |-> FALSE, entries |-> <<>>, detectedFormat |-> "Unknown"]))

(***************************************************************************)
(* SimpleLogViewer: the filters over the entries of the parsed log.  The   *)
(* viewer holds `filters` and is given `entries`; the filtered list is     *)
(* computed from the two at every render.  Dates are compared as instants  *)
(* <<day, second of the day, millisecond>>, the day counted from           *)
(* 2000-01-01 UTC; `timezone` is the offset of the machine's local time.   *)
(***************************************************************************)
\* toDate.setHours(23, 59, 59, 999): the date of the last millisecond of the
\* local day of the instant, an Invalid Date (None) when that millisecond
\* lies past the last time value of a Date
EndOfLocalDay(inst, tz) ==
  TimeClip("utc", Shift(<<Shift(inst, tz * 3600)[1], 86399, 999>>, 0 - tz * 3600))

\* entry.metadata?.[key]
MetadataField(e, key) ==
  IF IsSome(e.metadata) THEN Get(Val(e.metadata), key) ELSE JsUndefined

\* filters.dateFrom && entry.timestamp, and entry.timestamp < fromDate (a
\* comparison with an Invalid Date is false)
BeforeFrom(e, dateFrom, tz) ==
  /\ Len(dateFrom) > 0
  /\ IsSome(e.timestamp)
  /\ IsSome(DateParse(dateFrom, tz))
  /\ Earlier(InstantOf(Val(e.timestamp), tz), InstantOf(Val(DateParse(dateFrom, tz)), tz))

\* filters.dateTo && entry.timestamp, and entry.timestamp > toDate (a
\* comparison with an Invalid Date is false)
AfterTo(e, dateTo, tz) ==
  /\ Len(dateTo) > 0
  /\ IsSome(e.timestamp)
  /\ IsSome(DateParse(dateTo, tz))
  /\ IsSome(EndOfLocalDay(InstantOf(Val(DateParse(dateTo, tz)), tz), tz))
  /\ Earlier(InstantOf(Val(EndOfLocalDay(InstantOf(Val(DateParse(dateTo, tz)), tz), tz)), tz),
             InstantOf(Val(e.timestamp), tz))

\* the callback of entries.filter: the entry is kept
Passes(e, f, tz) ==
  /\ ~(Len(f.search) > 0 /\ ~includes(toLowerCase(e.message), toLowerCase(f.search)))
  /\ ~(f.level # <<"a","l","l">> /\ e.level # Some(f.level))
  /\ ~(f.module # <<"a","l","l">> /\ MetadataField(e, <<"m","o","d","u","l","e">>) # JsStr(f.module))
  /\ ~(f.feature # <<"a","l","l">> /\ MetadataField(e, <<"f","e","a","t","u","r","e">>) # JsStr(f.feature))
  /\ ~(f.user # <<"a","l","l">> /\ MetadataField(e, <<"u","s","e","r",".","l","o","g","i","n">>) # JsStr(f.user))
  /\ ~BeforeFrom(e, f.dateFrom, tz)
  /\ ~AfterTo(e, f.dateTo, tz)

\* const filteredEntries = useMemo(() => entries.filter(...), [entries, filters])
filteredEntries(es, f, tz) == SelectSeq(es, LAMBDA e : Passes(e, f, tz))
filteredNow == filteredEntries(entries, filters, timezone)

\* the lines of a log that is given to the viewer
ViewedLines == <<
  <<"2","0","2","4","-","0","1","-","1","5","T","1","0",":","3","0",":","4","5","Z"," ","E","R","R","O","R"," ","d","i","s","k"," ","E","r","r","o","r">>,
  <<"{","\"","l","e","v","e","l","\"",":","\"","i","n","f","o","\"",",","\"","m","o","d","u","l","e","\"",":","\"","a","u","t","h","\"",",","\"","f","e","a","t","u","r","e","\"",":","\"","l","o","g","i","n","\"",",","\"","u","s","e","r",".","l","o","g","i","n","\"",":","\"","b","o","b","\"",",","\"","m","e","s","s","a","g","e","\"",":","\"","o","k","\"",",","\"","t","i","m","e","s","t","a","m","p","\"",":","\"","2","0","2","4","-","0","1","-","1","6"," ","2","3",":","3","0",":","0","0","\"","}">>,
  <<"h","e","l","l","o"," ","w","o","r","l","d">>,
  <<"{","\"","m","o","d","u","l","e","\"",":","\"","a","u","t","h","\"",",","\"","m","s","g","\"",":","\"","D","i","s","k"," ","e","r","r","o","r","\"",",","\"","t","s","\"",":","\"","2","0","2","4","-","0","1","-","1","4","T","2","3",":","5","9",":","5","9","Z","\"","}">>,
  <<"2","0","2","4","-","0","1","-","1","5"," ","2","3",":","5","9",":","5","9"," ","I","N","F","O"," ","l","a","t","e">> >>

\* the aggregate parseLogFile returns for the log
ViewedLog(c) == parseLogFile(join(ViewedLines, <<"\n">>), <<"a","p","p",".","l","o","g">>, c)

\* the values the controls of the viewer hand to handleFilterChange
FilterInputs ==
  [search |-> {<<>>, <<"E","R","R">>, <<"o","k">>},
   level |-> {<<"a","l","l">>, <<"E","R","R","O","R">>, <<"I","N","F","O">>},
   dateFrom |-> {<<>>, <<"2","0","2","4","-","0","1","-","1","5">>},
   dateTo |-> {<<>>, <<"2","0","2","4","-","0","1","-","1","5">>, <<"2","0","2","4","-","0","1","-","1","6">>},
   module |-> {<<"a","l","l">>, <<"a","u","t","h">>},
   feature |-> {<<"a","l","l">>, <<"l","o","g","i","n">>},
   user |-> {<<"a","l","l">>, <<"b","o","b">>}]

\* the application shows the viewer with the entries of its parsed log
InitViewer ==
  /\ clock \in Clocks
  /\ timezone = clock.zone
  /\ parsedLog = Some(ViewedLog(clock))
  /\ entries = Val(parsedLog).entries
  /\ detectedFormat = Val(parsedLog).detectedFormat
  /\ content = join(ViewedLines, <<"\n">>)
  /\ lines = ViewedLines
  /\ i = Len(ViewedLines)
  /\ pc = "done"
  /\ entry = NoEntry
  /\ filters = ClearedFilters
  /\ selectedFile = None
  /\ isLoading = FALSE
  /\ reading = <<>>

\* setFilters((prev) => ({ ...prev, [key]: value }))
handleFilterChange(key, value) ==
  /\ IsSome(parsedLog)
  /\ filters' = [filters EXCEPT ![key] = value]
  /\ UNCHANGED <<content, clock, lines, i, pc, entry, entries, detectedFormat,
                 timezone, selectedFile, isLoading, reading, parsedLog>>

ChangeFilter ==
  \E key \in DOMAIN FilterInputs : \E value \in FilterInputs[key] :
    handleFilterChange(key, value)

\* setFilters({search: "", level: "all", ...})
clearFilters ==
  /\ IsSome(parsedLog)
  /\ filters' = ClearedFilters
  /\ UNCHANGED <<content, clock, lines, i, pc, entry, entries, detectedFormat,
                 timezone, selectedFile, isLoading, reading, parsedLog>>

NextViewer ==
  \/ ChangeFilter
  \/ clearFilters

SpecViewer == InitViewer /\ [][NextViewer]_vars

\* the instant of a record lies in the inclusive range of the two dates,
\* each bound applying when its filter is set: not before the start of the
\* first day, not after the last millisecond of the last day
InDateRange(e, f, tz) ==
  /\ IsSome(e.timestamp)
  /\ ~BeforeFrom(e, f.dateFrom, tz)
  /\ ~AfterTo(e, f.dateTo, tz)

\* the record satisfies every filter that is active: the search text occurs
\* in its message (in any case of letters), its level is the level chosen,
\* its metadata holds the module, feature and user chosen, and its timestamp
\* lies in the date range chosen
Satisfies(e, f, tz) ==
  /\ (Len(f.search) > 0 => includes(toLowerCase(e.message), toLowerCase(f.search)))
  /\ (f.level # <<"a","l","l">> => e.level = Some(f.level))
  /\ (f.module # <<"a","l","l">> => MetadataField(e, <<"m","o","d","u","l","e">>) = JsStr(f.module))
  /\ (f.feature # <<"a","l","l">> => MetadataField(e, <<"f","e","a","t","u","r","e">>) = JsStr(f.feature))
  /\ (f.user # <<"a","l","l">> => MetadataField(e, <<"u","s","e","r",".","l","o","g","i","n">>) = JsStr(f.user))
  /\ ((Len(f.dateFrom) > 0 \/ Len(f.dateTo) > 0) => InDateRange(e, f, tz))

\* the records of es that satisfy every active filter, in their order
Satisfying(es, f, tz) == SelectSeq(es, LAMBDA e : Satisfies(e, f, tz))

\* C25: after any sequence of filter changes and clears the filtered list is
\* the subsequence, in order, of exactly the records that satisfy every
\* active filter; the entries given to the viewer are unchanged; with every
\* filter cleared the filtered list is the full sequence.
FilteredAreTheSatisfying ==
  /\ filteredNow = Satisfying(entries, filters, timezone)
  /\ entries = ViewedLog(clock).entries
  /\ (filters = ClearedFilters => filteredNow = entries)
(***************************************************************************)
(* LogUpload and App: a file handed to the upload component is read        *)
(* asynchronously; when the read completes the application parses the text *)
(* and holds the result.  `reading` is the sequence of files whose read is *)
(* in flight.  The upload component is rendered while the application      *)
(* holds no parsed log, its drop zone and file input while no file is      *)
(* selected.                                                               *)
(***************************************************************************)
\* String.prototype.endsWith
endsWith(s, needle) == OccursAt(s, needle, Len(s) - Len(needle) + 1)

\* the files a user hands to the component
Files == {
  [name |-> <<"a",".","l","o","g">>, type |-> <<>>, text |-> <<"E","R","R","O","R"," ","o","n","e">>],
  [name |-> <<"b",".","t","x","t">>, type |-> <<"t","e","x","t","/","p","l","a","i","n">>, text |-> <<"{","\"","l","e","v","e","l","\"",":","\"","i","n","f","o","\"","}","\n","\n","o","k">>],
  [name |-> <<"c",".","p","n","g">>, type |-> <<"i","m","a","g","e","/","p","n","g">>, text |-> <<"x">>],
  [name |-> <<"d",".","l","o","g">>, type |-> <<>>, text |-> <<"{","\"","m","o","d","u","l","e","\"",":","{","\"","t","o","S","t","r","i","n","g","\"",":","1","}","}">>] }

\* !file.type.includes('text') && !file.name.endsWith('.log')
Refused(file) == ~includes(file.type, <<"t","e","x","t">>) /\ ~endsWith(file.name, <<".","l","o","g">>)

InitUpload ==
  /\ clock \in ClocksAt(0)
  /\ AppAtRest
  /\ content = <<>>
  /\ lines = <<>>
  /\ i = 0
  /\ pc = "start"
  /\ entry = NoEntry
  /\ entries = <<>>
  /\ detectedFormat = "Unknown"

\* handleFile up to its await: a refused file raises an alert and changes
\* nothing; else setIsLoading(true), setSelectedFile(file), and file.text()
\* starts the read
handleFile(file) ==
  IF Refused(file)
  THEN UNCHANGED vars
  ELSE /\ isLoading' = TRUE
       /\ selectedFile' = Some(file)
       /\ reading' = Append(reading, file)
       /\ UNCHANGED <<content, clock, lines, i, pc, entry, entries, detectedFormat,
                      filters, timezone, parsedLog>>

\* a drop zone that is rendered whether or not a file is selected
DropZoneBesideFile == IsNone(parsedLog)

\* the drop zone is rendered by the upload component while no file is selected
DropZoneShown == IsNone(parsedLog) /\ IsNone(selectedFile)

\* onDrop of the drop zone
handleDrop == DropZoneShown /\ \E file \in Files : handleFile(file)

\* onChange of the file input, which is inside the drop zone and disabled
\* while loading
handleFileSelect == DropZoneShown /\ ~isLoading /\ \E file \in Files : handleFile(file)

\* the sequence without its element k
Without(seq, k) == SubSeq(seq, 1, k - 1) \o SubSeq(seq, k + 1, Len(seq))

\* the read of reading[k] completes: onFileLoaded(content, file.name), that is
\* setParsedLog(parseLogFile(content, filename)), unless parseLogFile raises
\* (the catch raises an alert); finally setIsLoading(false)
ReadDone ==
  \E k \in 1..Len(reading) :
    /\ parsedLog' = IF parseLogFile(reading[k].text, reading[k].name, clock).threw
                    THEN parsedLog
                    ELSE Some(parseLogFile(reading[k].text, reading[k].name, clock))
    /\ isLoading' = FALSE
    /\ reading' = Without(reading, k)
    /\ UNCHANGED <<content, clock, lines, i, pc, entry, entries, detectedFormat,
                   filters, timezone, selectedFile>>

\* the read of reading[k] fails: the catch raises an alert; finally
\* setIsLoading(false)
ReadFails ==
  \E k \in 1..Len(reading) :
    /\ isLoading' = FALSE
    /\ reading' = Without(reading, k)
    /\ UNCHANGED <<content, clock, lines, i, pc, entry, entries, detectedFormat,
                   filters, timezone, selectedFile, parsedLog>>

\* the button beside the selected file, disabled while loading
clearFile ==
  /\ IsNone(parsedLog)
  /\ IsSome(selectedFile)
  /\ ~isLoading
  /\ selectedFile' = None
  /\ UNCHANGED <<content, clock, lines, i, pc, entry, entries, detectedFormat,
                 filters, timezone, isLoading, reading, parsedLog>>

\* "Upload New File", shown while a parsed log is held: setParsedLog(null);
\* the viewer is unmounted and its filters are discarded (the viewer of the
\* next log starts from the initial filters), and the upload component is
\* mounted anew
handleReset ==
  /\ IsSome(parsedLog)
  /\ parsedLog' = None
  /\ filters' = ClearedFilters
  /\ selectedFile' = None
  /\ isLoading' = FALSE
  /\ UNCHANGED <<content, clock, lines, i, pc, entry, entries, detectedFormat,
                 timezone, reading>>

\* the application: the upload component while no parsed log is held, the
\* viewer with its filter controls while one is
NextUpload ==
  \/ handleDrop
  \/ handleFileSelect
  \/ ReadDone
  \/ ReadFails
  \/ clearFile
  \/ handleReset
  \/ ChangeFilter
  \/ clearFilters

SpecUpload == InitUpload /\ [][NextUpload]_vars

\* no file can be handed to the component while a read is in flight: the
\* drop zone and the input are shown only while no file is selected, a file
\* stays selected while its read is in flight, and the application shows the
\* component only while it holds no parsed log
OneReadAtATime ==
  /\ Len(reading) <= 1
  /\ (Len(reading) = 1 => (isLoading /\ selectedFile = Some(reading[1]) /\ IsNone(parsedLog)))

\* the parsed log the application holds is that of the file selected last
HeldIsOfSelected ==
  (IsSome(parsedLog) /\ IsSome(selectedFile)) =>
    parsedLog = Some(parseLogFile(Val(selectedFile).text, Val(selectedFile).name, clock))

\* a file is submitted: dropped on the drop zone or chosen in the file input
Submit == handleDrop \/ handleFileSelect

\* the read of a submitted file has not completed
ReadInFlight == Len(reading) > 0

=============================================================================
